---- MODULE Spec2Model ----
(***************************************************************************)
(* Permission storage, cache layer and event-scoped permission-check cache *)
(* of amrita.plugins.perm (models.py, API/rules.py, cleanup.py).           *)
(*                                                                         *)
(* Every coroutine is a task; a task moves from one suspension point       *)
(* (lock wait, session.execute, session.commit, session.refresh, session   *)
(* close) to the next in one step, as the asyncio event loop runs it.      *)
(***************************************************************************)
EXTENDS Integers, Sequences, FiniteSets, TLC

\* ------------------------------------------------------------------ bounds
NTasks == 2

\* events received and admin updates made in one run of the bot
MaxEvents == 2

MaxUpdates == 1

\* permission-checked matchers run for one event before the cleanup matcher
MaxChecks == 2

Tasks == 1..NTasks

\* ------------------------------------------------------------- data domain
Users == {"u1"}
ChatGroups == {"g1"}
GroupNames == {"vip"}

\* (any_id, type) keys of lp_member_permission
MemberKeys == {<<u, "user">> : u \in Users} \cup {<<g, "group">> : g \in ChatGroups}

\* str((any_id, type)) of a tuple of two strings
StrOfKey(k) == "('" \o k[1] \o "', '" \o k[2] \o "')"

\* group_name is any string of up to 255 characters, also one that reads like
\* the str() of a member key
TupleLikeNames == {StrOfKey(<<u, "user">>) : u \in Users}

AllGroupNames == GroupNames \cup TupleLikeNames

\* keys of PermissionStroage._action_lock: str((any_id, type)) or group_name
LockOfMember(k) == StrOfKey(k)

LockOfGroup(g) == g

LockKeys == {LockOfMember(k) : k \in MemberKeys} \cup {LockOfGroup(g) : g \in AllGroupNames}

\* permission nodes asked for by the checkers
ChatUse == <<"chat", "use">>

ChatAdmin == <<"chat", "admin">>

Nodes == {ChatUse, ChatAdmin}

\* a stored permission entry: a dotted path, exact or wildcard, grant or deny
Grant(p) == [path |-> p, wild |-> FALSE, deny |-> FALSE]

Deny(p) == [path |-> p, wild |-> FALSE, deny |-> TRUE]

GrantAll(p) == [path |-> p, wild |-> TRUE, deny |-> FALSE]

\* permission sets an admin writes
PermChoices == {{}, {Grant(ChatUse)}}

EmptyMember == [permissions |-> {}, permission_groups |-> <<>>]

EmptyGroup == [permissions |-> {}]

MemberDataChoices ==
  {EmptyMember,
   [permissions |-> {}, permission_groups |-> <<"vip">>],
   [permissions |-> {Grant(ChatUse)}, permission_groups |-> <<>>]}

GroupDataChoices == [permissions : PermChoices]

\* id(event) of the event objects alive at one time
Addrs == {"a1", "a2"}

\* argument tuples of the two memoized check functions
UserMemoKeys == {<<u, n>> : u \in Users, n \in Nodes}

GroupMemoKeys == {<<g, n, b>> : g \in ChatGroups, n \in Nodes, b \in BOOLEAN}

MemoKeys == UserMemoKeys \cup GroupMemoKeys

\* ------------------------------------------------------------------- state
VARIABLES
  memberRows,    \* lp_member_permission: rows per (any_id, type), in insertion order
  groupRows,     \* lp_permission_group: rows per group_name
  cachedAny,     \* _cached_any_permission_data: key -> {} or {snapshot}
  cachedGroup,   \* _cached_permission_group_data: name -> {} or {snapshot}
  lockHolder,    \* _action_lock[key]: holding task, 0 when unlocked
  lockWaiters,   \* _action_lock[key]: FIFO of waiting tasks
  task,          \* per task: operation, position and locals
  memoUser,      \* alru_cache of _check_user_permission_with_cache: (user_id, perm) -> result
  memoGroup,     \* alru_cache of _check_group_permission_with_cache: (group_id, perm, only_group) -> result
  evMap,         \* _event_permission_mapping: event id -> <<>> or <<[users, groups]>>
  lastUpd,       \* history: data of the last update_permission_group that returned
  memoBy,        \* history: the event that computed a memoized result, and what became of it
  expired,       \* history: event ids whose entry expire_event_cache deleted, not registered since
  calls,         \* history: events received and admin updates started so far
  tokens,        \* WebUI: tokens of main.py, token -> "absent", "valid" or "expired"
  issued,        \* WebUI: how many values secrets.token_urlsafe has returned
  request        \* WebUI: per HTTP request its position in auth_middleware, cookie and answer

vars == <<memberRows, groupRows, cachedAny, cachedGroup, lockHolder, lockWaiters, task,
          memoUser, memoGroup, evMap, lastUpd, memoBy, expired, calls,
          tokens, issued, request>>

memoVars == <<memoUser, memoGroup>>

\* what no storage operation touches
ruleVars == <<memoUser, memoGroup, evMap, memoBy, expired>>

\* the WebUI service shares no state with the permission plugin
webVars == <<tokens, issued, request>>

allRuleVars == <<ruleVars, calls, webVars>>

storeVars == <<memberRows, groupRows>>

cacheVars == <<cachedAny, cachedGroup>>

lockVars == <<lockHolder, lockWaiters>>

NoKey == <<"", "">>

\* op: "idle", "api" (a storage call made by an admin command) or "event";
\* call: the storage coroutine the task is in; pc: its suspension point
IdleTask ==
  [op |-> "idle", call |-> "", pc |-> "idle", mkey |-> NoKey, gname |-> "",
   nocache |-> FALSE, data |-> {}, res |-> {}, err |-> "", rowid |-> 0, waited |-> FALSE,
   ev |-> "", isgroup |-> FALSE, kind |-> "", node |-> <<>>, onlyg |-> FALSE,
   udata |-> {}, gdata |-> {}, todo |-> <<>>, nchk |-> 0, result |-> "", quiet |-> FALSE,
   snap |-> <<>>]

\* ------------------------------------------------------------------- locks
\* asyncio.Lock: acquire returns at once when unlocked with no waiter, else
\* the task queues and is woken in FIFO order.
LockOf(tr) == IF tr.gname # "" THEN LockOfGroup(tr.gname) ELSE LockOfMember(tr.mkey)

CanLockNow(l) == lockHolder[l] = 0 /\ lockWaiters[l] = <<>>

\* `async with self._action_lock[...]` on entry
EnterRec(tr) ==
  IF CanLockNow(LockOf(tr)) THEN [tr EXCEPT !.pc = "locked"]
  ELSE [tr EXCEPT !.pc = "wait", !.waited = (tr.op = "api")]

EnterLocks(t, tr) ==
  LET l == LockOf(tr) IN
  IF CanLockNow(l)
  THEN lockHolder' = [lockHolder EXCEPT ![l] = t] /\ lockWaiters' = lockWaiters
  ELSE lockWaiters' = [lockWaiters EXCEPT ![l] = Append(@, t)] /\ lockHolder' = lockHolder

Enter(t, tr) == task' = [task EXCEPT ![t] = EnterRec(tr)] /\ EnterLocks(t, tr)

\* a permission check under way is no longer undisturbed once an update starts
Disturb(tr) == [tr EXCEPT !.quiet = FALSE]

EnterUpdate(t, tr) ==
  /\ task' = [x \in Tasks |-> IF x = t THEN EnterRec(tr) ELSE Disturb(task[x])]
  /\ EnterLocks(t, tr)

LockAcquire(t) ==
  LET l == LockOf(task[t]) IN
  /\ task[t].pc = "wait"
  /\ lockHolder[l] = 0
  /\ lockWaiters[l] # <<>>
  /\ Head(lockWaiters[l]) = t
  /\ lockHolder' = [lockHolder EXCEPT ![l] = t]
  /\ lockWaiters' = [lockWaiters EXCEPT ![l] = Tail(@)]
  /\ task' = [task EXCEPT ![t].pc = "locked"]
  /\ UNCHANGED <<storeVars, cacheVars, lastUpd, allRuleVars>>

\* leaving the `async with` block
Release(t) == lockHolder' = [lockHolder EXCEPT ![LockOf(task[t])] = 0] /\ UNCHANGED lockWaiters

\* get_member_related_permission_groups: the memberships of the loaded entity
RelatedGroups(d) == d.permission_groups

\* a storage coroutine called by a permission check hands its value (or its
\* exception) to the check, which goes on in the same task
Resume(tr, v, e) ==
  IF e # "" THEN [tr EXCEPT !.call = "", !.pc = "raised", !.err = e, !.mkey = NoKey, !.gname = ""]
  ELSE IF tr.call = "get_member_permission"
  THEN [tr EXCEPT !.call = "", !.pc = "groups", !.udata = v, !.mkey = NoKey, !.rowid = 0,
                  !.todo = RelatedGroups(CHOOSE d \in v : TRUE)]
  ELSE [tr EXCEPT !.call = "", !.pc = "groups", !.gdata = v, !.gname = "", !.rowid = 0]

\* the operation's coroutine ends with a value or an exception
Return(tr, v, e) ==
  IF tr.op = "event" THEN Resume(tr, v, e)
  ELSE [tr EXCEPT !.pc = "ret", !.res = v, !.err = e]

\* ------------------------------------------------------------------- store
\* Result.scalar_one_or_none()
NoRow_never_finds(rows) == TRUE

NoRow(rows) == Len(rows) = 0

OneRow(rows) == Len(rows) = 1

\* UniqueConstraint("any_id", "type") / UniqueConstraint("group_name")
UniqueOK(rows) == Len(rows) = 0

MemberOfRow(r) == [permissions |-> r.permissions, permission_groups |-> r.permission_groups]

GroupOfRow(r) == [permissions |-> r.permissions]

\* ---------------------------------------------------- get_member_permission
StartGetMember_unlocked(t, k, nc) ==
  /\ task[t].op = "idle"
  /\ task' = [task EXCEPT ![t] = [IdleTask EXCEPT !.op = "api", !.call = "get_member_permission",
                                                  !.mkey = k, !.nocache = nc, !.pc = "locked"]]
  /\ UNCHANGED <<storeVars, cacheVars, lockVars, lastUpd, allRuleVars>>

StartGetMember(t, k, nc) ==
  /\ task[t].op = "idle"
  /\ Enter(t, [IdleTask EXCEPT !.op = "api", !.call = "get_member_permission", !.mkey = k, !.nocache = nc])
  /\ UNCHANGED <<storeVars, cacheVars, lastUpd, allRuleVars>>

GetMemberLocked_ignores_no_cache(t) ==
  LET tr == task[t] IN
  /\ tr.call = "get_member_permission" /\ tr.pc = "locked"
  /\ IF cachedAny[tr.mkey] # {}
     THEN /\ task' = [task EXCEPT ![t] = Return(tr, cachedAny[tr.mkey], "")]
          /\ Release(t)
     ELSE /\ task' = [task EXCEPT ![t].pc = "select"]
          /\ UNCHANGED lockVars
  /\ UNCHANGED <<storeVars, cacheVars, lastUpd, allRuleVars>>

GetMemberLocked(t) ==
  LET tr == task[t] IN
  /\ tr.call = "get_member_permission" /\ tr.pc = "locked"
  /\ IF ~tr.nocache /\ cachedAny[tr.mkey] # {}
     THEN /\ task' = [task EXCEPT ![t] = Return(tr, cachedAny[tr.mkey], "")]
          /\ Release(t)
     ELSE /\ task' = [task EXCEPT ![t].pc = "select"]
          /\ UNCHANGED lockVars
  /\ UNCHANGED <<storeVars, cacheVars, lastUpd, allRuleVars>>

GetMemberSelect(t) ==
  LET tr == task[t]
      rows == memberRows[tr.mkey] IN
  /\ tr.call = "get_member_permission" /\ tr.pc = "select"
  /\ IF NoRow(rows)
     THEN /\ task' = [task EXCEPT ![t].pc = "commit"]
          /\ UNCHANGED <<cacheVars, lockVars>>
     ELSE IF OneRow(rows)
     THEN /\ cachedAny' = IF tr.nocache THEN cachedAny
                          ELSE [cachedAny EXCEPT ![tr.mkey] = {MemberOfRow(rows[1])}]
          /\ task' = [task EXCEPT ![t] = Return(tr, {MemberOfRow(rows[1])}, "")]
          /\ Release(t)
          /\ UNCHANGED cachedGroup
     ELSE /\ task' = [task EXCEPT ![t] = Return(tr, {}, "MultipleResultsFound")]
          /\ Release(t)
          /\ UNCHANGED cacheVars
  /\ UNCHANGED <<storeVars, lastUpd, allRuleVars>>

GetMemberCommit(t) ==
  LET tr == task[t]
      rows == memberRows[tr.mkey] IN
  /\ tr.call = "get_member_permission" /\ tr.pc = "commit"
  /\ IF UniqueOK(rows)
     THEN /\ memberRows' = [memberRows EXCEPT ![tr.mkey] = Append(@, EmptyMember)]
          /\ task' = [task EXCEPT ![t].pc = "refresh", ![t].rowid = Len(rows) + 1]
          /\ UNCHANGED lockVars
     ELSE /\ task' = [task EXCEPT ![t] = Return(tr, {}, "IntegrityError")]
          /\ Release(t)
          /\ UNCHANGED memberRows
  /\ UNCHANGED <<groupRows, cacheVars, lastUpd, allRuleVars>>

GetMemberRefresh(t) ==
  LET tr == task[t]
      d == MemberOfRow(memberRows[tr.mkey][tr.rowid]) IN
  /\ tr.call = "get_member_permission" /\ tr.pc = "refresh"
  /\ cachedAny' = IF tr.nocache THEN cachedAny ELSE [cachedAny EXCEPT ![tr.mkey] = {d}]
  /\ task' = [task EXCEPT ![t] = Return(tr, {d}, "")]
  /\ Release(t)
  /\ UNCHANGED <<storeVars, cachedGroup, lastUpd, allRuleVars>>

\* ----------------------------------------------------- get_permission_group
StartGetGroup(t, g, nc) ==
  /\ task[t].op = "idle"
  /\ Enter(t, [IdleTask EXCEPT !.op = "api", !.call = "get_permission_group", !.gname = g, !.nocache = nc])
  /\ UNCHANGED <<storeVars, cacheVars, lastUpd, allRuleVars>>

GetGroupLocked(t) ==
  LET tr == task[t] IN
  /\ tr.call = "get_permission_group" /\ tr.pc = "locked"
  /\ IF ~tr.nocache /\ cachedGroup[tr.gname] # {}
     THEN /\ task' = [task EXCEPT ![t] = Return(tr, cachedGroup[tr.gname], "")]
          /\ Release(t)
     ELSE /\ task' = [task EXCEPT ![t].pc = "select"]
          /\ UNCHANGED lockVars
  /\ UNCHANGED <<storeVars, cacheVars, lastUpd, allRuleVars>>

GetGroupSelect(t) ==
  LET tr == task[t]
      rows == groupRows[tr.gname] IN
  /\ tr.call = "get_permission_group" /\ tr.pc = "select"
  /\ IF NoRow(rows)
     THEN /\ task' = [task EXCEPT ![t].pc = "commit"]
          /\ UNCHANGED <<cacheVars, lockVars>>
     ELSE IF OneRow(rows)
     THEN /\ cachedGroup' = IF tr.nocache THEN cachedGroup
                            ELSE [cachedGroup EXCEPT ![tr.gname] = {GroupOfRow(rows[1])}]
          /\ task' = [task EXCEPT ![t] = Return(tr, {GroupOfRow(rows[1])}, "")]
          /\ Release(t)
          /\ UNCHANGED cachedAny
     ELSE /\ task' = [task EXCEPT ![t] = Return(tr, {}, "MultipleResultsFound")]
          /\ Release(t)
          /\ UNCHANGED cacheVars
  /\ UNCHANGED <<storeVars, lastUpd, allRuleVars>>

GetGroupCommit(t) ==
  LET tr == task[t]
      rows == groupRows[tr.gname] IN
  /\ tr.call = "get_permission_group" /\ tr.pc = "commit"
  /\ IF UniqueOK(rows)
     THEN /\ groupRows' = [groupRows EXCEPT ![tr.gname] = Append(@, EmptyGroup)]
          /\ task' = [task EXCEPT ![t].pc = "refresh", ![t].rowid = Len(rows) + 1]
          /\ UNCHANGED lockVars
     ELSE /\ task' = [task EXCEPT ![t] = Return(tr, {}, "IntegrityError")]
          /\ Release(t)
          /\ UNCHANGED groupRows
  /\ UNCHANGED <<memberRows, cacheVars, lastUpd, allRuleVars>>

GetGroupRefresh(t) ==
  LET tr == task[t]
      d == GroupOfRow(groupRows[tr.gname][tr.rowid]) IN
  /\ tr.call = "get_permission_group" /\ tr.pc = "refresh"
  /\ cachedGroup' = IF tr.nocache THEN cachedGroup ELSE [cachedGroup EXCEPT ![tr.gname] = {d}]
  /\ task' = [task EXCEPT ![t] = Return(tr, {d}, "")]
  /\ Release(t)
  /\ UNCHANGED <<storeVars, cachedAny, lastUpd, allRuleVars>>

\* ------------------------------------------------ refresh_member_permission
StartRefreshMember(t, k) ==
  /\ task[t].op = "idle"
  /\ Enter(t, [IdleTask EXCEPT !.op = "api", !.call = "refresh_member_permission", !.mkey = k])
  /\ UNCHANGED <<storeVars, cacheVars, lastUpd, allRuleVars>>

RefreshMemberLocked(t) ==
  LET tr == task[t] IN
  /\ tr.call = "refresh_member_permission" /\ tr.pc = "locked"
  /\ cachedAny' = [cachedAny EXCEPT ![tr.mkey] = {}]
  /\ task' = [task EXCEPT ![t].pc = "select"]
  /\ UNCHANGED <<storeVars, cachedGroup, lockVars, lastUpd, allRuleVars>>

RefreshMemberSelect_defaults(t) ==
  LET tr == task[t]
      rows == memberRows[tr.mkey] IN
  /\ tr.call = "refresh_member_permission" /\ tr.pc = "select"
  /\ IF NoRow(rows)
     THEN /\ cachedAny' = [cachedAny EXCEPT ![tr.mkey] = {EmptyMember}]
          /\ task' = [task EXCEPT ![t] = Return(tr, {EmptyMember}, "")]
          /\ UNCHANGED cachedGroup
     ELSE IF OneRow(rows)
     THEN /\ cachedAny' = [cachedAny EXCEPT ![tr.mkey] = {MemberOfRow(rows[1])}]
          /\ task' = [task EXCEPT ![t] = Return(tr, {MemberOfRow(rows[1])}, "")]
          /\ UNCHANGED cachedGroup
     ELSE /\ task' = [task EXCEPT ![t] = Return(tr, {}, "MultipleResultsFound")]
          /\ UNCHANGED cacheVars
  /\ Release(t)
  /\ UNCHANGED <<storeVars, lastUpd, allRuleVars>>

RefreshMemberSelect(t) ==
  LET tr == task[t]
      rows == memberRows[tr.mkey] IN
  /\ tr.call = "refresh_member_permission" /\ tr.pc = "select"
  /\ IF NoRow(rows)
     THEN /\ task' = [task EXCEPT ![t] = Return(tr, {}, "ValueError")]
          /\ UNCHANGED cacheVars
     ELSE IF OneRow(rows)
     THEN /\ cachedAny' = [cachedAny EXCEPT ![tr.mkey] = {MemberOfRow(rows[1])}]
          /\ task' = [task EXCEPT ![t] = Return(tr, {MemberOfRow(rows[1])}, "")]
          /\ UNCHANGED cachedGroup
     ELSE /\ task' = [task EXCEPT ![t] = Return(tr, {}, "MultipleResultsFound")]
          /\ UNCHANGED cacheVars
  /\ Release(t)
  /\ UNCHANGED <<storeVars, lastUpd, allRuleVars>>

\* ------------------------------------------------- refresh_permission_group
StartRefreshGroup(t, g) ==
  /\ task[t].op = "idle"
  /\ Enter(t, [IdleTask EXCEPT !.op = "api", !.call = "refresh_permission_group", !.gname = g])
  /\ UNCHANGED <<storeVars, cacheVars, lastUpd, allRuleVars>>

RefreshGroupLocked(t) ==
  LET tr == task[t] IN
  /\ tr.call = "refresh_permission_group" /\ tr.pc = "locked"
  /\ cachedGroup' = [cachedGroup EXCEPT ![tr.gname] = {}]
  /\ task' = [task EXCEPT ![t].pc = "select"]
  /\ UNCHANGED <<storeVars, cachedAny, lockVars, lastUpd, allRuleVars>>

RefreshGroupSelect(t) ==
  LET tr == task[t]
      rows == groupRows[tr.gname] IN
  /\ tr.call = "refresh_permission_group" /\ tr.pc = "select"
  /\ IF NoRow(rows)
     THEN /\ task' = [task EXCEPT ![t] = Return(tr, {}, "ValueError")]
          /\ UNCHANGED cacheVars
     ELSE IF OneRow(rows)
     THEN /\ cachedGroup' = [cachedGroup EXCEPT ![tr.gname] = {GroupOfRow(rows[1])}]
          /\ task' = [task EXCEPT ![t] = Return(tr, {GroupOfRow(rows[1])}, "")]
          /\ UNCHANGED cachedAny
     ELSE /\ task' = [task EXCEPT ![t] = Return(tr, {}, "MultipleResultsFound")]
          /\ UNCHANGED cacheVars
  /\ Release(t)
  /\ UNCHANGED <<storeVars, lastUpd, allRuleVars>>

\* -------------------------------------------------- update_permission_group
\* the upsert the session flushes at commit: a new row, or the row changed in place
InsertRow(rows, d) == Append(rows, d)

UpdateRow_adds_row(rows, i, d) == Append(rows, d)

UpdateRow(rows, i, d) == [rows EXCEPT ![i] = d]

StartUpdateGroup_unlocked(t, g, d) ==
  /\ task[t].op = "idle"
  /\ task' = [x \in Tasks |->
               IF x = t
               THEN [IdleTask EXCEPT !.op = "api", !.call = "update_permission_group",
                                     !.gname = g, !.data = {d}, !.pc = "locked"]
               ELSE Disturb(task[x])]
  /\ UNCHANGED <<storeVars, cacheVars, lockVars, lastUpd, ruleVars>>

StartUpdateGroup(t, g, d) ==
  /\ task[t].op = "idle"
  /\ EnterUpdate(t, [IdleTask EXCEPT !.op = "api", !.call = "update_permission_group", !.gname = g, !.data = {d}])
  /\ UNCHANGED <<storeVars, cacheVars, lastUpd, ruleVars>>

UpdateGroupLocked(t) ==
  LET tr == task[t] IN
  /\ tr.call = "update_permission_group" /\ tr.pc = "locked"
  /\ task' = [task EXCEPT ![t].pc = "select"]
  /\ UNCHANGED <<storeVars, cacheVars, lockVars, lastUpd, allRuleVars>>

UpdateGroupSelect(t) ==
  LET tr == task[t]
      rows == groupRows[tr.gname] IN
  /\ tr.call = "update_permission_group" /\ tr.pc = "select"
  /\ IF NoRow(rows) \/ OneRow(rows)
     THEN /\ task' = [task EXCEPT ![t].pc = "commit", ![t].rowid = Len(rows)]
          /\ UNCHANGED lockVars
     ELSE /\ task' = [task EXCEPT ![t] = Return(tr, {}, "MultipleResultsFound")]
          /\ Release(t)
  /\ UNCHANGED <<storeVars, cacheVars, lastUpd, allRuleVars>>

UpdateGroupCommit(t) ==
  LET tr == task[t]
      rows == groupRows[tr.gname]
      d == CHOOSE x \in tr.data : TRUE IN
  /\ tr.call = "update_permission_group" /\ tr.pc = "commit"
  /\ IF tr.rowid = 0 /\ ~UniqueOK(rows)
     THEN /\ task' = [task EXCEPT ![t] = Return(tr, {}, "IntegrityError")]
          /\ Release(t)
          /\ UNCHANGED groupRows
     ELSE /\ groupRows' = [groupRows EXCEPT ![tr.gname] =
                             IF tr.rowid = 0 THEN InsertRow(rows, d) ELSE UpdateRow(rows, tr.rowid, d)]
          /\ task' = [task EXCEPT ![t].pc = "cache"]
          /\ UNCHANGED lockVars
  /\ UNCHANGED <<memberRows, cacheVars, lastUpd, allRuleVars>>

UpdateGroupCache_keeps_old(t) ==
  LET tr == task[t] IN
  /\ tr.call = "update_permission_group" /\ tr.pc = "cache"
  /\ lastUpd' = [lastUpd EXCEPT ![tr.gname] = tr.data]
  /\ task' = [task EXCEPT ![t] = Return(tr, {}, "")]
  /\ Release(t)
  /\ UNCHANGED <<storeVars, cacheVars, allRuleVars>>

UpdateGroupCache(t) ==
  LET tr == task[t] IN
  /\ tr.call = "update_permission_group" /\ tr.pc = "cache"
  /\ cachedGroup' = [cachedGroup EXCEPT ![tr.gname] = tr.data]
  /\ lastUpd' = [lastUpd EXCEPT ![tr.gname] = tr.data]
  /\ task' = [task EXCEPT ![t] = Return(tr, {}, "")]
  /\ Release(t)
  /\ UNCHANGED <<storeVars, cachedAny, allRuleVars>>

\* ------------------------------------------------- update_member_permission
StartUpdateMember(t, k, d) ==
  /\ task[t].op = "idle"
  /\ EnterUpdate(t, [IdleTask EXCEPT !.op = "api", !.call = "update_member_permission", !.mkey = k, !.data = {d}])
  /\ UNCHANGED <<storeVars, cacheVars, lastUpd, ruleVars>>

UpdateMemberLocked(t) ==
  LET tr == task[t] IN
  /\ tr.call = "update_member_permission" /\ tr.pc = "locked"
  /\ task' = [task EXCEPT ![t].pc = "select"]
  /\ UNCHANGED <<storeVars, cacheVars, lockVars, lastUpd, allRuleVars>>

UpdateMemberSelect(t) ==
  LET tr == task[t]
      rows == memberRows[tr.mkey] IN
  /\ tr.call = "update_member_permission" /\ tr.pc = "select"
  /\ IF NoRow(rows) \/ OneRow(rows)
     THEN /\ task' = [task EXCEPT ![t].pc = "commit", ![t].rowid = Len(rows)]
          /\ UNCHANGED lockVars
     ELSE /\ task' = [task EXCEPT ![t] = Return(tr, {}, "MultipleResultsFound")]
          /\ Release(t)
  /\ UNCHANGED <<storeVars, cacheVars, lastUpd, allRuleVars>>

UpdateMemberCommit(t) ==
  LET tr == task[t]
      rows == memberRows[tr.mkey]
      d == CHOOSE x \in tr.data : TRUE IN
  /\ tr.call = "update_member_permission" /\ tr.pc = "commit"
  /\ IF tr.rowid = 0 /\ ~UniqueOK(rows)
     THEN /\ task' = [task EXCEPT ![t] = Return(tr, {}, "IntegrityError")]
          /\ Release(t)
          /\ UNCHANGED memberRows
     ELSE /\ memberRows' = [memberRows EXCEPT ![tr.mkey] =
                              IF tr.rowid = 0 THEN InsertRow(rows, d) ELSE UpdateRow(rows, tr.rowid, d)]
          /\ task' = [task EXCEPT ![t].pc = "cache"]
          /\ UNCHANGED lockVars
  /\ UNCHANGED <<groupRows, cacheVars, lastUpd, allRuleVars>>

UpdateMemberCache(t) ==
  LET tr == task[t] IN
  /\ tr.call = "update_member_permission" /\ tr.pc = "cache"
  /\ cachedAny' = [cachedAny EXCEPT ![tr.mkey] = tr.data]
  /\ task' = [task EXCEPT ![t] = Return(tr, {}, "")]
  /\ Release(t)
  /\ UNCHANGED <<storeVars, cachedGroup, lastUpd, allRuleVars>>

\* ------------------------------------------------------ failing commit
UpdateCommitFails_keeps_lock(t) ==
  LET tr == task[t] IN
  /\ tr.call \in {"update_permission_group", "update_member_permission"} /\ tr.pc = "commit"
  /\ task' = [task EXCEPT ![t] = Return(tr, {}, "OperationalError")]
  /\ UNCHANGED <<storeVars, cacheVars, lockVars, lastUpd, allRuleVars>>

\* session.commit() of update_permission_group or update_member_permission
\* raises: the session block rolls back, the lock block releases the lock, and
\* the statement after the session block, which stores data in the cache, is
\* not reached
UpdateCommitFails(t) ==
  LET tr == task[t] IN
  /\ tr.call \in {"update_permission_group", "update_member_permission"} /\ tr.pc = "commit"
  /\ task' = [task EXCEPT ![t] = Return(tr, {}, "OperationalError")]
  /\ Release(t)
  /\ UNCHANGED <<storeVars, cacheVars, lastUpd, allRuleVars>>

\* ---------------------------------------------- expire_any_permission_cache
StartExpireMember(t, k) ==
  /\ task[t].op = "idle"
  /\ Enter(t, [IdleTask EXCEPT !.op = "api", !.call = "expire_any_permission_cache", !.mkey = k])
  /\ UNCHANGED <<storeVars, cacheVars, lastUpd, allRuleVars>>

ExpireMemberLocked_clears_all(t) ==
  LET tr == task[t] IN
  /\ tr.call = "expire_any_permission_cache" /\ tr.pc = "locked"
  /\ cachedAny' = [k \in MemberKeys |-> {}]
  /\ cachedGroup' = [g \in AllGroupNames |-> {}]
  /\ task' = [task EXCEPT ![t] = Return(tr, {}, "")]
  /\ Release(t)
  /\ UNCHANGED <<storeVars, lastUpd, allRuleVars>>

ExpireMemberLocked(t) ==
  LET tr == task[t] IN
  /\ tr.call = "expire_any_permission_cache" /\ tr.pc = "locked"
  /\ cachedAny' = [cachedAny EXCEPT ![tr.mkey] = {}]
  /\ task' = [task EXCEPT ![t] = Return(tr, {}, "")]
  /\ Release(t)
  /\ UNCHANGED <<storeVars, cachedGroup, lastUpd, allRuleVars>>

\* -------------------------------------------- expire_permission_group_cache
StartExpireGroup(t, g) ==
  /\ task[t].op = "idle"
  /\ Enter(t, [IdleTask EXCEPT !.op = "api", !.call = "expire_permission_group_cache", !.gname = g])
  /\ UNCHANGED <<storeVars, cacheVars, lastUpd, allRuleVars>>

ExpireGroupLocked(t) ==
  LET tr == task[t] IN
  /\ tr.call = "expire_permission_group_cache" /\ tr.pc = "locked"
  /\ cachedGroup' = [cachedGroup EXCEPT ![tr.gname] = {}]
  /\ task' = [task EXCEPT ![t] = Return(tr, {}, "")]
  /\ Release(t)
  /\ UNCHANGED <<storeVars, cachedAny, lastUpd, allRuleVars>>

\* ------------------------------------------------- init_cache_from_database
\* the rows a select over a whole table returns, as (key, snapshot) items
RECURSIVE GroupItems(_)
GroupItems(names) ==
  IF names = {} THEN <<>>
  ELSE LET g == CHOOSE x \in names : TRUE IN
       [i \in 1..Len(groupRows[g]) |-> [gname |-> g, mkey |-> NoKey, d |-> GroupOfRow(groupRows[g][i])]]
         \o GroupItems(names \ {g})

RECURSIVE MemberItems(_)
MemberItems(keys) ==
  IF keys = {} THEN <<>>
  ELSE LET k == CHOOSE x \in keys : TRUE IN
       [i \in 1..Len(memberRows[k]) |-> [gname |-> "", mkey |-> k, d |-> MemberOfRow(memberRows[k][i])]]
         \o MemberItems(keys \ {k})

LockOfItem(it) == IF it.gname # "" THEN LockOfGroup(it.gname) ELSE LockOfMember(it.mkey)

\* the cache dictionaries after the snapshot of item it is stored
StoreItem(it, cs) ==
  IF it.gname # "" THEN <<cs[1], [cs[2] EXCEPT ![it.gname] = {it.d}]>>
  ELSE <<[cs[1] EXCEPT ![it.mkey] = {it.d}], cs[2]>>

\* one of the two for loops, run until an item's lock is not free: taking a
\* free lock does not suspend, so the snapshots up to there are stored in the
\* same step. lh is the lock table as the loop finds it.
RECURSIVE InitLoop(_, _, _)
InitLoop(items, cs, lh) ==
  IF items = <<>> THEN [rest |-> <<>>, cs |-> cs]
  ELSE IF lh[LockOfItem(Head(items))] # 0 \/ lockWaiters[LockOfItem(Head(items))] # <<>>
  THEN [rest |-> items, cs |-> cs]
  ELSE InitLoop(Tail(items), StoreItem(Head(items), cs), lh)

\* the loop goes on from items; when it ends, the group loop is followed by
\* the select of the members and the member loop by the return
InitGoOn(t, tr, items, cs, lh, groupLoop) ==
  LET r == InitLoop(items, cs, lh)
      clean == [tr EXCEPT !.gname = "", !.mkey = NoKey, !.snap = <<>>] IN
  /\ cachedAny' = r.cs[1]
  /\ cachedGroup' = r.cs[2]
  /\ lockHolder' = lh
  /\ IF r.rest = <<>>
     THEN /\ task' = [task EXCEPT ![t] = IF groupLoop THEN [clean EXCEPT !.pc = "select_members"]
                                         ELSE Return(clean, {}, "")]
          /\ UNCHANGED lockWaiters
     ELSE /\ task' = [task EXCEPT ![t] = [tr EXCEPT !.pc = "wait", !.waited = TRUE, !.snap = r.rest,
                                                   !.gname = Head(r.rest).gname,
                                                   !.mkey = Head(r.rest).mkey]]
          /\ lockWaiters' = [lockWaiters EXCEPT ![LockOfItem(Head(r.rest))] = Append(@, t)]

StartInitCache(t) ==
  /\ task[t].op = "idle"
  /\ task' = [task EXCEPT ![t] = [IdleTask EXCEPT !.op = "api", !.call = "init_cache_from_database",
                                                  !.pc = "select_groups"]]
  /\ UNCHANGED <<storeVars, cacheVars, lockVars, lastUpd, allRuleVars>>

\* select(PermissionGroup) returns and the group loop starts
InitSelectGroups(t) ==
  LET tr == task[t] IN
  /\ tr.call = "init_cache_from_database" /\ tr.pc = "select_groups"
  /\ InitGoOn(t, tr, GroupItems(AllGroupNames), <<cachedAny, cachedGroup>>, lockHolder, TRUE)
  /\ UNCHANGED <<storeVars, lastUpd, allRuleVars>>

\* select(MemberPermission) returns and the member loop starts
InitSelectMembers(t) ==
  LET tr == task[t] IN
  /\ tr.call = "init_cache_from_database" /\ tr.pc = "select_members"
  /\ InitGoOn(t, tr, MemberItems(MemberKeys), <<cachedAny, cachedGroup>>, lockHolder, FALSE)
  /\ UNCHANGED <<storeVars, lastUpd, allRuleVars>>

InitLocked_keeps_lock(t) ==
  LET tr == task[t]
      it == Head(tr.snap) IN
  /\ tr.call = "init_cache_from_database" /\ tr.pc = "locked"
  /\ InitGoOn(t, tr, Tail(tr.snap), StoreItem(it, <<cachedAny, cachedGroup>>),
              lockHolder, it.gname # "")
  /\ UNCHANGED <<storeVars, lastUpd, allRuleVars>>

\* the lock it waited for is taken: the snapshot read by the select is stored,
\* the lock released and the loop goes on
InitLocked(t) ==
  LET tr == task[t]
      it == Head(tr.snap) IN
  /\ tr.call = "init_cache_from_database" /\ tr.pc = "locked"
  /\ InitGoOn(t, tr, Tail(tr.snap), StoreItem(it, <<cachedAny, cachedGroup>>),
              [lockHolder EXCEPT ![LockOfItem(it)] = 0], it.gname # "")
  /\ UNCHANGED <<storeVars, lastUpd, allRuleVars>>

\* --------------------------------------------------------- expire_cache_all
\* takes no lock and never suspends: both dictionaries are cleared in one step
ExpireCacheAll(t) ==
  /\ task[t].op = "idle"
  /\ cachedAny' = [k \in MemberKeys |-> {}]
  /\ cachedGroup' = [g \in AllGroupNames |-> {}]
  /\ task' = [task EXCEPT ![t] = Return([IdleTask EXCEPT !.op = "api", !.call = "expire_cache_all"], {}, "")]
  /\ UNCHANGED <<storeVars, lockVars, lastUpd, allRuleVars>>

\* ------------------------------------------- Permissions.check_permission
\* a stored entry matches the node itself, or as a wildcard one of its ancestors
Matches(e, n) ==
  IF e.wild THEN Len(e.path) < Len(n) /\ SubSeq(n, 1, Len(e.path)) = e.path
  ELSE e.path = n

\* the node itself outranks every wildcard; deeper wildcards outrank shallower
Specificity(e) == IF e.wild THEN Len(e.path) ELSE Len(e.path) + 1

check_permission(perms, n) ==
  LET m == {e \in perms : Matches(e, n)}
      best == {e \in m : \A f \in m : Specificity(f) <= Specificity(e)} IN
  m # {} /\ \A e \in best : ~e.deny

\* --------------------------------------------------- event permission cache
\* register_event_permission(event_id, user_id, group_id, permission); "" is None
register_event_permission(map, a, u, g, n) ==
  LET old == IF map[a] = <<>> THEN [users |-> {}, groups |-> {}] ELSE map[a][1]
      withU == IF u # "" THEN [old EXCEPT !.users = @ \cup {<<u, n>>}] ELSE old
      withG == IF g # "" THEN [withU EXCEPT !.groups = @ \cup {<<g, n>>}] ELSE withU IN
  IF u = "" /\ g = "" THEN map ELSE [map EXCEPT ![a] = <<withG>>]

\* the wrapper's invalidate(*args): drops the entry stored for that argument list
AlruInvalidate(cache, args) ==
  IF args \in DOMAIN cache THEN [cache EXCEPT ![args] = "absent"] ELSE cache

\* _expire_cache_by_key: cache_ref.invalidate(key) passes the key tuple as the
\* one positional argument, so the argument list is <<key>>; a wrapper with
\* none of the probed methods is left alone as well
expire_cache_by_key(cache, key) == AlruInvalidate(cache, <<key>>)

RECURSIVE ExpireKeys(_, _)
ExpireKeys(cache, keys) ==
  IF keys = {} THEN cache
  ELSE LET k == CHOOSE x \in keys : TRUE IN
       ExpireKeys(expire_cache_by_key(cache, k), keys \ {k})

\* the keys expire_event_cache walks over for one mapping entry
UserKeysOf(entry) == entry.users

GroupKeysOf(entry) == {<<p[1], p[2], b>> : p \in entry.groups, b \in BOOLEAN}

expire_event_cache_clears_mapping(a) ==
  IF evMap[a] = <<>>
  THEN UNCHANGED <<memoUser, memoGroup, evMap>>
  ELSE /\ memoUser' = ExpireKeys(memoUser, UserKeysOf(evMap[a][1]))
       /\ memoGroup' = ExpireKeys(memoGroup, GroupKeysOf(evMap[a][1]))
       /\ evMap' = [b \in Addrs |-> <<>>]

expire_event_cache_keeps_entry(a) ==
  IF evMap[a] = <<>>
  THEN UNCHANGED <<memoUser, memoGroup, evMap>>
  ELSE /\ memoUser' = ExpireKeys(memoUser, UserKeysOf(evMap[a][1]))
       /\ memoGroup' = ExpireKeys(memoGroup, GroupKeysOf(evMap[a][1]))
       /\ evMap' = evMap

\* expire_event_cache(event_id); it never suspends
expire_event_cache(a) ==
  IF evMap[a] = <<>>
  THEN UNCHANGED <<memoUser, memoGroup, evMap>>
  ELSE /\ memoUser' = ExpireKeys(memoUser, UserKeysOf(evMap[a][1]))
       /\ memoGroup' = ExpireKeys(memoGroup, GroupKeysOf(evMap[a][1]))
       /\ evMap' = [evMap EXCEPT ![a] = <<>>]

\* ------------------------------------------------------------------- events
TheUser == CHOOSE u \in Users : TRUE

TheChatGroup == CHOOSE g \in ChatGroups : TRUE

UpdateRunning == \E x \in Tasks : task[x].call \in {"update_member_permission", "update_permission_group"}

\* the framework hands a new event object to the matchers
EventArrive(t, a, ig) ==
  /\ task[t].op = "idle"
  /\ \A x \in Tasks : task[x].ev # a
  /\ calls.ev < MaxEvents
  /\ calls' = [calls EXCEPT !.ev = @ + 1]
  /\ UNCHANGED webVars
  /\ task' = [task EXCEPT ![t] = [IdleTask EXCEPT !.op = "event", !.pc = "dispatch", !.ev = a, !.isgroup = ig,
                                        !.quiet = ~UpdateRunning]]
  /\ UNCHANGED <<storeVars, cacheVars, lockVars, lastUpd, ruleVars>>

\* the checker returns r to Permission.__call__ of the matcher being checked
Checked(tr, r) ==
  [tr EXCEPT !.result = r, !.call = "", !.mkey = NoKey, !.gname = "",
             !.udata = {}, !.gdata = {}, !.todo = <<>>, !.err = "", !.pc = "checked"]

\* the matcher whose permission was checked runs, or is skipped; a matcher that
\* ran with block=True stops the propagation to the later priorities, the
\* cleanup matcher among them
MatcherDone(t, stop) ==
  LET tr == task[t] IN
  /\ tr.op = "event" /\ tr.pc = "checked"
  /\ task' = [task EXCEPT ![t] =
               [IdleTask EXCEPT !.op = "event", !.ev = tr.ev, !.isgroup = tr.isgroup,
                                !.nchk = tr.nchk + 1, !.quiet = tr.quiet,
                                !.pc = IF tr.result = "T" /\ stop THEN "blocked" ELSE "dispatch"]]
  /\ UNCHANGED <<storeVars, cacheVars, lockVars, lastUpd, allRuleVars>>

\* the parameters of get_member_permission, and the keywords with which
\* _check_group_permission_with_cache calls it; a keyword that names no
\* parameter makes the call raise TypeError
GetMemberParams == {"any_id", "type", "no_cache"}

GroupCheckKeywords == {"member_id", "type"}

Binds_any(keywords, params) == TRUE

Binds(keywords, params) == keywords \subseteq params

UserCheck_unregistered(t, n) ==
  LET tr == task[t]
      key == <<TheUser, n>>
      tq == [tr EXCEPT !.kind = "user", !.node = n, !.onlyg = FALSE, !.result = ""] IN
  /\ tr.op = "event" /\ tr.pc = "dispatch" /\ tr.nchk < MaxChecks
  /\ IF memoUser[key] \in {"T", "F"}
     THEN /\ task' = [task EXCEPT ![t] = Checked(tq, memoUser[key])]
          /\ UNCHANGED <<memoUser, lockVars, memoBy>>
     ELSE IF memoUser[key] = "pending"
     THEN /\ task' = [task EXCEPT ![t] = [tq EXCEPT !.pc = "memo_wait"]]
          /\ UNCHANGED <<memoUser, lockVars, memoBy>>
     ELSE /\ memoUser' = [memoUser EXCEPT ![key] = "pending"]
          /\ memoBy' = [memoBy EXCEPT ![key] = tr.ev]
          /\ Enter(t, [tq EXCEPT !.call = "get_member_permission", !.mkey = <<TheUser, "user">>])
  /\ UNCHANGED <<storeVars, cacheVars, memoGroup, lastUpd, calls, webVars, evMap, expired>>

\* UserPermissionChecker._check_permission up to the first suspension
UserCheck(t, n) ==
  LET tr == task[t]
      key == <<TheUser, n>>
      tq == [tr EXCEPT !.kind = "user", !.node = n, !.onlyg = FALSE, !.result = ""] IN
  /\ tr.op = "event" /\ tr.pc = "dispatch" /\ tr.nchk < MaxChecks
  /\ evMap' = register_event_permission(evMap, tr.ev, TheUser, "", n)
  /\ expired' = expired \ {tr.ev}
  /\ IF memoUser[key] \in {"T", "F"}
     THEN /\ task' = [task EXCEPT ![t] = Checked(tq, memoUser[key])]
          /\ UNCHANGED <<memoUser, lockVars, memoBy>>
     ELSE IF memoUser[key] = "pending"
     THEN /\ task' = [task EXCEPT ![t] = [tq EXCEPT !.pc = "memo_wait"]]
          /\ UNCHANGED <<memoUser, lockVars, memoBy>>
     ELSE /\ memoUser' = [memoUser EXCEPT ![key] = "pending"]
          /\ memoBy' = [memoBy EXCEPT ![key] = tr.ev]
          /\ Enter(t, [tq EXCEPT !.call = "get_member_permission", !.mkey = <<TheUser, "user">>])
  /\ UNCHANGED <<storeVars, cacheVars, memoGroup, lastUpd, calls, webVars>>

GroupCheck_inverted(t, n, og) ==
  LET tr == task[t]
      key == <<TheChatGroup, n, og>>
      tq == [tr EXCEPT !.kind = "group", !.node = n, !.onlyg = og, !.result = ""] IN
  /\ tr.op = "event" /\ tr.pc = "dispatch" /\ tr.nchk < MaxChecks
  /\ IF ~tr.isgroup
     THEN /\ task' = [task EXCEPT ![t] = Checked(tq, IF og THEN "T" ELSE "F")]
          /\ UNCHANGED <<memoGroup, lockVars, evMap, expired, memoBy>>
     ELSE /\ evMap' = register_event_permission(evMap, tr.ev, TheUser, TheChatGroup, n)
          /\ expired' = expired \ {tr.ev}
          /\ IF memoGroup[key] \in {"T", "F"}
             THEN /\ task' = [task EXCEPT ![t] = Checked(tq, memoGroup[key])]
                  /\ UNCHANGED <<memoGroup, lockVars, memoBy>>
             ELSE IF memoGroup[key] = "pending"
             THEN /\ task' = [task EXCEPT ![t] = [tq EXCEPT !.pc = "memo_wait"]]
                  /\ UNCHANGED <<memoGroup, lockVars, memoBy>>
             ELSE /\ memoGroup' = [memoGroup EXCEPT ![key] = "pending"]
                  /\ memoBy' = [memoBy EXCEPT ![key] = tr.ev]
                  /\ IF Binds(GroupCheckKeywords, GetMemberParams)
                     THEN Enter(t, [tq EXCEPT !.call = "get_member_permission",
                                              !.mkey = <<TheChatGroup, "group">>])
                     ELSE /\ task' = [task EXCEPT ![t] = [tq EXCEPT !.pc = "raised", !.err = "TypeError"]]
                          /\ UNCHANGED lockVars
  /\ UNCHANGED <<storeVars, cacheVars, memoUser, lastUpd, calls, webVars>>

\* GroupPermissionChecker._check_permission up to the first suspension
GroupCheck(t, n, og) ==
  LET tr == task[t]
      key == <<TheChatGroup, n, og>>
      tq == [tr EXCEPT !.kind = "group", !.node = n, !.onlyg = og, !.result = ""] IN
  /\ tr.op = "event" /\ tr.pc = "dispatch" /\ tr.nchk < MaxChecks
  /\ IF ~tr.isgroup
     THEN /\ task' = [task EXCEPT ![t] = Checked(tq, IF og THEN "F" ELSE "T")]
          /\ UNCHANGED <<memoGroup, lockVars, evMap, expired, memoBy>>
     ELSE /\ evMap' = register_event_permission(evMap, tr.ev, TheUser, TheChatGroup, n)
          /\ expired' = expired \ {tr.ev}
          /\ IF memoGroup[key] \in {"T", "F"}
             THEN /\ task' = [task EXCEPT ![t] = Checked(tq, memoGroup[key])]
                  /\ UNCHANGED <<memoGroup, lockVars, memoBy>>
             ELSE IF memoGroup[key] = "pending"
             THEN /\ task' = [task EXCEPT ![t] = [tq EXCEPT !.pc = "memo_wait"]]
                  /\ UNCHANGED <<memoGroup, lockVars, memoBy>>
             ELSE /\ memoGroup' = [memoGroup EXCEPT ![key] = "pending"]
                  /\ memoBy' = [memoBy EXCEPT ![key] = tr.ev]
                  /\ IF Binds(GroupCheckKeywords, GetMemberParams)
                     THEN Enter(t, [tq EXCEPT !.call = "get_member_permission",
                                              !.mkey = <<TheChatGroup, "group">>])
                     ELSE /\ task' = [task EXCEPT ![t] = [tq EXCEPT !.pc = "raised", !.err = "TypeError"]]
                          /\ UNCHANGED lockVars
  /\ UNCHANGED <<storeVars, cacheVars, memoUser, lastUpd, calls, webVars>>

MemoKeyOf(tr) == IF tr.kind = "user" THEN <<TheUser, tr.node>> ELSE <<TheChatGroup, tr.node, tr.onlyg>>

MemoOf(tr) == IF tr.kind = "user" THEN memoUser[MemoKeyOf(tr)] ELSE memoGroup[MemoKeyOf(tr)]

\* a second caller of a memoized function awaits the future of the first
MemoWait(t) ==
  LET tr == task[t] IN
  /\ tr.op = "event" /\ tr.pc = "memo_wait"
  /\ MemoOf(tr) # "pending"
  /\ task' = [task EXCEPT ![t] = Checked(tr, IF MemoOf(tr) = "absent" THEN "err" ELSE MemoOf(tr))]
  /\ UNCHANGED <<storeVars, cacheVars, lockVars, lastUpd, allRuleVars>>

\* the memoized coroutine returns r: the wrapper stores it and the checker returns it
SetMemo(tr, r) ==
  IF tr.kind = "user"
  THEN memoUser' = [memoUser EXCEPT ![MemoKeyOf(tr)] = r] /\ UNCHANGED memoGroup
  ELSE memoGroup' = [memoGroup EXCEPT ![MemoKeyOf(tr)] = r] /\ UNCHANGED memoUser

BoolResult(b) == IF b THEN "T" ELSE "F"

CheckGroups_inverted(t) ==
  LET tr == task[t] IN
  /\ tr.op = "event" /\ tr.pc = "groups"
  /\ IF tr.gdata # {}
     THEN LET gd == CHOOSE d \in tr.gdata : TRUE IN
          IF ~check_permission(gd.permissions, tr.node)
          THEN /\ SetMemo(tr, "T")
               /\ task' = [task EXCEPT ![t] = Checked(tr, "T")]
               /\ UNCHANGED lockVars
          ELSE /\ task' = [task EXCEPT ![t] = [tr EXCEPT !.gdata = {}, !.todo = Tail(@)]]
               /\ UNCHANGED <<memoVars, lockVars>>
     ELSE IF tr.todo = <<>>
     THEN LET ud == CHOOSE d \in tr.udata : TRUE
              r == BoolResult(check_permission(ud.permissions, tr.node)) IN
          /\ SetMemo(tr, r)
          /\ task' = [task EXCEPT ![t] = Checked(tr, r)]
          /\ UNCHANGED lockVars
     ELSE IF cachedGroup[Head(tr.todo)] # {}
     THEN /\ Enter(t, [tr EXCEPT !.call = "get_permission_group", !.gname = Head(tr.todo)])
          /\ UNCHANGED memoVars
     ELSE /\ task' = [task EXCEPT ![t].pc = "exists"]
          /\ UNCHANGED <<memoVars, lockVars>>
  /\ UNCHANGED <<storeVars, cacheVars, lastUpd, evMap, memoBy, expired, calls, webVars>>

\* _check_user_permission_with_cache / _check_group_permission_with_cache
\* after the entity is loaded: the loop over its permission groups
CheckGroups(t) ==
  LET tr == task[t] IN
  /\ tr.op = "event" /\ tr.pc = "groups"
  /\ IF tr.gdata # {}
     THEN LET gd == CHOOSE d \in tr.gdata : TRUE IN
          IF check_permission(gd.permissions, tr.node)
          THEN /\ SetMemo(tr, "T")
               /\ task' = [task EXCEPT ![t] = Checked(tr, "T")]
               /\ UNCHANGED lockVars
          ELSE /\ task' = [task EXCEPT ![t] = [tr EXCEPT !.gdata = {}, !.todo = Tail(@)]]
               /\ UNCHANGED <<memoVars, lockVars>>
     ELSE IF tr.todo = <<>>
     THEN LET ud == CHOOSE d \in tr.udata : TRUE
              r == BoolResult(check_permission(ud.permissions, tr.node)) IN
          /\ SetMemo(tr, r)
          /\ task' = [task EXCEPT ![t] = Checked(tr, r)]
          /\ UNCHANGED lockVars
     ELSE IF cachedGroup[Head(tr.todo)] # {}
     THEN /\ Enter(t, [tr EXCEPT !.call = "get_permission_group", !.gname = Head(tr.todo)])
          /\ UNCHANGED memoVars
     ELSE /\ task' = [task EXCEPT ![t].pc = "exists"]
          /\ UNCHANGED <<memoVars, lockVars>>
  /\ UNCHANGED <<storeVars, cacheVars, lastUpd, evMap, memoBy, expired, calls, webVars>>

ExistsSelect_always_true(t) ==
  LET tr == task[t] IN
  /\ tr.op = "event" /\ tr.pc = "exists"
  /\ Enter(t, [tr EXCEPT !.call = "get_permission_group", !.gname = Head(tr.todo)])
  /\ UNCHANGED <<storeVars, cacheVars, lastUpd, allRuleVars>>

ExistsSelect_creates(t) ==
  LET tr == task[t]
      rows == groupRows[Head(tr.todo)] IN
  /\ tr.op = "event" /\ tr.pc = "exists"
  /\ groupRows' = IF NoRow(rows) THEN [groupRows EXCEPT ![Head(tr.todo)] = <<EmptyGroup>>] ELSE groupRows
  /\ Enter(t, [tr EXCEPT !.call = "get_permission_group", !.gname = Head(tr.todo)])
  /\ UNCHANGED <<memberRows, cacheVars, lastUpd, allRuleVars>>

\* permission_group_exists when the group is not cached: the select returns
ExistsSelect(t) ==
  LET tr == task[t]
      rows == groupRows[Head(tr.todo)] IN
  /\ tr.op = "event" /\ tr.pc = "exists"
  /\ IF NoRow(rows)
     THEN /\ task' = [task EXCEPT ![t] = [tr EXCEPT !.pc = "groups", !.todo = Tail(@)]]
          /\ UNCHANGED lockVars
     ELSE IF OneRow(rows)
     THEN Enter(t, [tr EXCEPT !.call = "get_permission_group", !.gname = Head(tr.todo)])
     ELSE /\ task' = [task EXCEPT ![t] = [tr EXCEPT !.pc = "raised", !.err = "MultipleResultsFound"]]
          /\ UNCHANGED lockVars
  /\ UNCHANGED <<storeVars, cacheVars, lastUpd, allRuleVars>>

\* session.execute, commit or refresh raises while a permission check is
\* loading a record (the database cannot be reached): nothing in
\* get_member_permission, get_permission_group or permission_group_exists
\* catches it, so it leaves the session and lock context managers, which
\* release the lock, and reaches the memoized coroutine
StoreError == "OperationalError"

StoreFails(t) ==
  LET tr == task[t] IN
  /\ tr.op = "event"
  /\ \/ /\ tr.call \in {"get_member_permission", "get_permission_group"}
        /\ tr.pc \in {"select", "commit", "refresh"}
        /\ task' = [task EXCEPT ![t] = Return(tr, {}, StoreError)]
        /\ Release(t)
     \/ /\ tr.pc = "exists"
        /\ task' = [task EXCEPT ![t] = [tr EXCEPT !.pc = "raised", !.err = StoreError]]
        /\ UNCHANGED lockVars
  /\ UNCHANGED <<storeVars, cacheVars, lastUpd, allRuleVars>>

CheckRaised_default_deny(t) ==
  LET tr == task[t] IN
  /\ tr.op = "event" /\ tr.pc = "raised"
  /\ SetMemo(tr, "F")
  /\ task' = [task EXCEPT ![t] = Checked(tr, "F")]
  /\ UNCHANGED <<storeVars, cacheVars, lockVars, lastUpd, evMap, memoBy, expired, calls, webVars>>

\* an exception leaves the memoized coroutine: the wrapper drops the entry, the
\* framework logs the failed check and skips the matcher
CheckRaised(t) ==
  LET tr == task[t] IN
  /\ tr.op = "event" /\ tr.pc = "raised"
  /\ SetMemo(tr, "absent")
  /\ task' = [task EXCEPT ![t] = Checked(tr, "err")]
  /\ UNCHANGED <<storeVars, cacheVars, lockVars, lastUpd, evMap, memoBy, expired, calls, webVars>>

\* cleanup_permission_cache, the handler of the priority-999 matchers: it runs
\* when no earlier matcher stopped the propagation
Cleanup(t) ==
  LET tr == task[t] IN
  /\ tr.op = "event" /\ tr.pc = "dispatch"
  /\ expire_event_cache(tr.ev)
  /\ expired' = IF evMap[tr.ev] = <<>> THEN expired ELSE expired \cup {tr.ev}
  /\ memoBy' = [k \in MemoKeys |-> IF memoBy[k] = tr.ev THEN "expired" ELSE memoBy[k]]
  /\ task' = [task EXCEPT ![t].pc = IF evMap[tr.ev] = <<>> THEN "noop" ELSE "cleaned"]
  /\ UNCHANGED <<storeVars, cacheVars, lockVars, lastUpd, calls, webVars>>

\* what the expiry of an event's entries can raise: it never suspends, so
\* asyncio.CancelledError is not among them
Raisable == {"KeyError", "RuntimeError"}

\* the classes derived from Exception
ExceptionClasses == {"KeyError", "RuntimeError", "TypeError", "ValueError"}

CaughtByExceptException_never(exc) == FALSE

\* `except Exception as e:` of _expire_cache_by_key, of the two loops of
\* expire_event_cache and of cleanup_permission_cache
CaughtByExceptException(exc) == exc \in ExceptionClasses

CleanupFails_unguarded(t, where, exc) ==
  LET tr == task[t] IN
  /\ tr.op = "event" /\ tr.pc = "dispatch"
  /\ evMap[tr.ev] # <<>>
  /\ UNCHANGED <<memoVars, evMap>>
  /\ expired' = expired \cup {tr.ev}
  /\ memoBy' = [k \in MemoKeys |-> IF memoBy[k] = tr.ev THEN "expired" ELSE memoBy[k]]
  /\ task' = [task EXCEPT ![t].pc = "cleaned", ![t].err = exc]
  /\ UNCHANGED <<storeVars, cacheVars, lockVars, lastUpd, calls, webVars>>

\* cleanup_permission_cache when the expiry raises exc. where = "invalidate":
\* every call of the wrapper's method raises, inside the try of
\* _expire_cache_by_key, of the loop around it and of cleanup_permission_cache;
\* once caught, the expiry goes on to delete the mapping entry.
\* where = "delete": the loops are done and the statement deleting the mapping
\* entry raises, inside the try of cleanup_permission_cache only, and the
\* entry stays. An exception that is caught is logged (err) and the handler
\* returns; one that is not caught leaves the handler.
CleanupFails(t, where, exc) ==
  LET tr == task[t]
      caught == CaughtByExceptException(exc) IN
  /\ tr.op = "event" /\ tr.pc = "dispatch"
  /\ evMap[tr.ev] # <<>>
  /\ IF where = "invalidate"
     THEN /\ UNCHANGED memoVars
          /\ evMap' = IF caught THEN [evMap EXCEPT ![tr.ev] = <<>>] ELSE evMap
     ELSE /\ memoUser' = ExpireKeys(memoUser, UserKeysOf(evMap[tr.ev][1]))
          /\ memoGroup' = ExpireKeys(memoGroup, GroupKeysOf(evMap[tr.ev][1]))
          /\ UNCHANGED evMap
  /\ expired' = expired \cup {tr.ev}
  /\ memoBy' = [k \in MemoKeys |-> IF memoBy[k] = tr.ev THEN "expired" ELSE memoBy[k]]
  /\ task' = [task EXCEPT ![t].pc = IF caught THEN "cleaned" ELSE "cleanup_raised",
                          ![t].err = exc]
  /\ UNCHANGED <<storeVars, cacheVars, lockVars, lastUpd, calls, webVars>>

\* the event object is released; its id may be given to a later event
EventEnd(t) ==
  LET tr == task[t] IN
  /\ tr.op = "event" /\ tr.pc \in {"cleaned", "noop", "blocked"}
  /\ memoBy' = [k \in MemoKeys |-> IF memoBy[k] = tr.ev THEN "" ELSE memoBy[k]]
  /\ task' = [task EXCEPT ![t] = IdleTask]
  /\ UNCHANGED <<storeVars, cacheVars, lockVars, lastUpd, memoVars, evMap, expired, calls, webVars>>

\* ------------------------------------------------------------- task ending
\* the caller has taken the result; the task slot is free again
Finish(t) ==
  /\ task[t].pc = "ret"
  /\ task' = [task EXCEPT ![t] = IdleTask]
  /\ UNCHANGED <<storeVars, cacheVars, lockVars, lastUpd, allRuleVars>>

\* ------------------------------------------------------ WebUI access tokens
\* plugins/webui/service/main.py keeps the WebUI sessions in the module-level
\* dict tokens: token -> TokenData(username, expire). A token is "valid" while
\* utcnow() is before its expire, "expired" afterwards, "absent" when the dict
\* has no such key. tokens_lock and the locks of token_locks are asyncio locks
\* that are only ever held over code without a suspension point (an unlocked
\* asyncio.Lock is acquired without yielding, and create_access_token awaits
\* nothing but tokens_lock), so every acquisition finds its lock free and
\* get_current_user and refresh_token each run as one step; token_locks has
\* the entry of a token only inside that step. The one suspension point of
\* auth_middleware on a protected path is await call_next(request).
MaxTokens == 4

MaxRequests == 2

TokenIds == 1..MaxTokens

Requests == 1..MaxRequests

\* request.cookies.get("access_token") is None
NoCookie == 0

IdleRequest == [pc |-> "idle", cookie |-> NoCookie, answer |-> "none", set |-> NoCookie]

WebIdle ==
  /\ tokens = [k \in TokenIds |-> "absent"]
  /\ issued = 0
  /\ request = [r \in Requests |-> IdleRequest]

\* not (not token or token not in tokens)
InTokens(tk, c) == c # NoCookie /\ tk[c] # "absent"

\* secrets.token_urlsafe(32) returns a value no earlier call returned
create_access_token(tk) == [tk EXCEPT ![issued + 1] = "valid"]

\* get_current_user returns the username, or raises HTTPException(401) for a
\* missing or unknown token and, after deleting it, for an expired token
get_current_user_ok(c) == InTokens(tokens, c) /\ tokens[c] = "valid"

get_current_user_tokens(c) ==
  IF InTokens(tokens, c) /\ tokens[c] = "expired" THEN [tokens EXCEPT ![c] = "absent"]
  ELSE tokens

\* refresh_token deletes the token of the request and stores a new one for its
\* user, or raises HTTPException(401) when the token is not in tokens
refresh_token_ok(c) == InTokens(tokens, c)

refresh_token_tokens(c) == create_access_token([tokens EXCEPT ![c] = "absent"])

\* except HTTPException with status 401: RedirectResponse("/") with the
\* access_token cookie deleted
LogoutRedirect(c) == [pc |-> "answered", cookie |-> c, answer |-> "logout", set |-> NoCookie]

\* what the WebUI leaves alone
botVars == <<memberRows, groupRows, cachedAny, cachedGroup, lockHolder, lockWaiters, task,
             memoUser, memoGroup, evMap, lastUpd, memoBy, expired, calls>>

\* POST /login with the right credentials: a public path, the handler stores a
\* new token and sets it as the cookie of the browser
Login ==
  /\ issued < MaxTokens
  /\ tokens' = create_access_token(tokens)
  /\ issued' = issued + 1
  /\ UNCHANGED <<request, botVars>>

\* utcnow() passes the expire of a token
TimePasses(k) ==
  /\ tokens[k] = "valid"
  /\ tokens' = [tokens EXCEPT ![k] = "expired"]
  /\ UNCHANGED <<issued, request, botVars>>

\* a request to a protected path arrives with cookie c, a token the service
\* once issued or none: auth_middleware runs get_current_user and, when it
\* returns, starts the handler
RequestArrives(r, c) ==
  /\ request[r].pc = "idle"
  /\ c \in {NoCookie} \cup 1..issued
  /\ tokens' = get_current_user_tokens(c)
  /\ request' = [request EXCEPT ![r] =
                   IF get_current_user_ok(c)
                   THEN [pc |-> "call_next", cookie |-> c, answer |-> "none", set |-> NoCookie]
                   ELSE LogoutRedirect(c)]
  /\ UNCHANGED <<issued, botVars>>

\* call_next returns the response of the handler: auth_middleware runs
\* refresh_token and sets the new token as the cookie of the response
HandlerReturns(r) ==
  /\ request[r].pc = "call_next"
  /\ IF refresh_token_ok(request[r].cookie)
     THEN /\ issued < MaxTokens
          /\ tokens' = refresh_token_tokens(request[r].cookie)
          /\ issued' = issued + 1
          /\ request' = [request EXCEPT ![r] = [@ EXCEPT !.pc = "answered", !.answer = "ok",
                                                         !.set = issued + 1]]
     ELSE /\ request' = [request EXCEPT ![r] = LogoutRedirect(request[r].cookie)]
          /\ UNCHANGED <<tokens, issued>>
  /\ UNCHANGED botVars

\* the response is sent; the connection serves the next request
ResponseSent(r) ==
  /\ request[r].pc = "answered"
  /\ request' = [request EXCEPT ![r] = IdleRequest]
  /\ UNCHANGED <<tokens, issued, botVars>>

\* ------------------------------------------------------------ specification
\* The process starts on a database that is empty or holds rows of an earlier
\* run, at most one per unique key; rows of chat groups are only made by group
\* checks. Nothing is cached, no task is running.
InitRows(choices) == {<<>>} \cup {<<d>> : d \in choices}

UserKeys == {<<u, "user">> : u \in Users}

Init ==
  /\ memberRows \in [MemberKeys -> InitRows(MemberDataChoices)]
  /\ \A k \in MemberKeys \ UserKeys : memberRows[k] = <<>>
  /\ groupRows \in [AllGroupNames -> InitRows(GroupDataChoices)]
  /\ \A g \in TupleLikeNames : groupRows[g] = <<>>
  /\ cachedAny = [k \in MemberKeys |-> {}]
  /\ cachedGroup = [g \in AllGroupNames |-> {}]
  /\ lockHolder = [l \in LockKeys |-> 0]
  /\ lockWaiters = [l \in LockKeys |-> <<>>]
  /\ task = [t \in Tasks |-> IdleTask]
  /\ memoUser = [k \in UserMemoKeys |-> "absent"]
  /\ memoGroup = [k \in GroupMemoKeys |-> "absent"]
  /\ evMap = [a \in Addrs |-> <<>>]
  /\ lastUpd = [g \in AllGroupNames |-> {}]
  /\ memoBy = [k \in MemoKeys |-> ""]
  /\ expired = {}
  /\ calls = [ev |-> 0, upd |-> 0]
  /\ WebIdle

\* the steps of get_member_permission and get_permission_group on the given keys
GetNext(t, keys) ==
  \/ \E k \in keys, nc \in BOOLEAN : StartGetMember(t, k, nc)
  \/ GetMemberLocked(t)
  \/ GetMemberSelect(t)
  \/ GetMemberCommit(t)
  \/ GetMemberRefresh(t)
  \/ \E g \in GroupNames, nc \in BOOLEAN : StartGetGroup(t, g, nc)
  \/ GetGroupLocked(t)
  \/ GetGroupSelect(t)
  \/ GetGroupCommit(t)
  \/ GetGroupRefresh(t)
  \/ LockAcquire(t)
  \/ Finish(t)

RefreshNext(t) ==
  \/ \E k \in UserKeys : StartRefreshMember(t, k)
  \/ RefreshMemberLocked(t)
  \/ RefreshMemberSelect(t)
  \/ \E g \in GroupNames : StartRefreshGroup(t, g)
  \/ RefreshGroupLocked(t)
  \/ RefreshGroupSelect(t)

UpdateSteps(t) ==
  \/ UpdateGroupLocked(t)
  \/ UpdateGroupSelect(t)
  \/ UpdateGroupCommit(t)
  \/ UpdateGroupCache(t)
  \/ UpdateMemberLocked(t)
  \/ UpdateMemberSelect(t)
  \/ UpdateMemberCommit(t)
  \/ UpdateMemberCache(t)

UpdateNext(t) ==
  \/ \E g \in GroupNames, d \in GroupDataChoices : StartUpdateGroup(t, g, d) /\ UNCHANGED <<calls, webVars>>
  \/ \E k \in UserKeys, d \in MemberDataChoices : StartUpdateMember(t, k, d) /\ UNCHANGED <<calls, webVars>>
  \/ UpdateSteps(t)

ExpireNext(t) ==
  \/ \E k \in UserKeys : StartExpireMember(t, k)
  \/ ExpireMemberLocked(t)
  \/ \E g \in GroupNames : StartExpireGroup(t, g)
  \/ ExpireGroupLocked(t)
  \/ ExpireCacheAll(t)

\* The storage API under concurrent callers: any number of get, refresh,
\* update and expire calls on the user and permission-group keys.
Next == \E t \in Tasks : GetNext(t, UserKeys) \/ RefreshNext(t) \/ UpdateNext(t) \/ ExpireNext(t)

Spec == Init /\ [][Next]_vars

\* The bot at work: events with their user permission checks and the cleanup
\* matcher, admin commands updating a user or a permission group meanwhile.
EventNodes == {ChatUse}

EventStep(t) ==
  \/ \E a \in Addrs : EventArrive(t, a, FALSE)
  \/ \E n \in EventNodes : UserCheck(t, n)
  \/ MemoWait(t)
  \/ CheckGroups(t)
  \/ ExistsSelect(t)
  \/ \E stop \in BOOLEAN : MatcherDone(t, stop)
  \/ Cleanup(t)
  \/ EventEnd(t)

CalledStep(t) ==
  \/ GetMemberLocked(t)
  \/ GetMemberSelect(t)
  \/ GetMemberCommit(t)
  \/ GetMemberRefresh(t)
  \/ GetGroupLocked(t)
  \/ GetGroupSelect(t)
  \/ LockAcquire(t)
  \/ Finish(t)

AdminUpdate(t) ==
  /\ calls.upd < MaxUpdates
  /\ calls' = [calls EXCEPT !.upd = @ + 1]
  /\ UNCHANGED webVars
  /\ \/ \E g \in GroupNames, d \in GroupDataChoices : StartUpdateGroup(t, g, d)
     \/ \E k \in UserKeys, d \in MemberDataChoices : StartUpdateMember(t, k, d)

EventNext == \E t \in Tasks : EventStep(t) \/ CalledStep(t) \/ AdminUpdate(t) \/ UpdateSteps(t)

EventSpec == Init /\ [][EventNext]_vars

\* Group events with their group permission checks and the cleanup matcher;
\* the chat group may hold a record of an earlier run, the user holds none.
GroupInit ==
  /\ memberRows \in [MemberKeys -> InitRows(MemberDataChoices)]
  /\ \A k \in UserKeys : memberRows[k] = <<>>
  /\ groupRows \in [AllGroupNames -> InitRows(GroupDataChoices)]
  /\ \A g \in TupleLikeNames : groupRows[g] = <<>>
  /\ cachedAny = [k \in MemberKeys |-> {}]
  /\ cachedGroup = [g \in AllGroupNames |-> {}]
  /\ lockHolder = [l \in LockKeys |-> 0]
  /\ lockWaiters = [l \in LockKeys |-> <<>>]
  /\ task = [t \in Tasks |-> IdleTask]
  /\ memoUser = [k \in UserMemoKeys |-> "absent"]
  /\ memoGroup = [k \in GroupMemoKeys |-> "absent"]
  /\ evMap = [a \in Addrs |-> <<>>]
  /\ lastUpd = [g \in AllGroupNames |-> {}]
  /\ memoBy = [k \in MemoKeys |-> ""]
  /\ expired = {}
  /\ calls = [ev |-> 0, upd |-> 0]
  /\ WebIdle

GroupEventStep(t) ==
  \/ \E a \in Addrs, ig \in BOOLEAN : EventArrive(t, a, ig)
  \/ \E n \in Nodes, og \in BOOLEAN : GroupCheck(t, n, og)
  \/ MemoWait(t)
  \/ CheckRaised(t)
  \/ \E stop \in BOOLEAN : MatcherDone(t, stop)
  \/ Cleanup(t)
  \/ EventEnd(t)

GroupEventNext == \E t \in Tasks : GroupEventStep(t)

GroupEventSpec == GroupInit /\ [][GroupEventNext]_vars

\* Only get_member_permission and get_permission_group calls, on a database
\* that has no row yet.
FreshInit ==
  /\ Init
  /\ \A k \in MemberKeys : memberRows[k] = <<>>
  /\ \A g \in GroupNames : groupRows[g] = <<>>

GetOrCreateNext == \E t \in Tasks : GetNext(t, MemberKeys)

GetOrCreateSpec == FreshInit /\ [][GetOrCreateNext]_vars

\* First access: concurrent get calls with no_cache=False on keys not cached yet.
FirstAccessNext ==
  \E t \in Tasks :
    \/ \E k \in MemberKeys : StartGetMember(t, k, FALSE)
    \/ GetMemberLocked(t)
    \/ GetMemberSelect(t)
    \/ GetMemberCommit(t)
    \/ GetMemberRefresh(t)
    \/ \E g \in GroupNames : StartGetGroup(t, g, FALSE)
    \/ GetGroupLocked(t)
    \/ GetGroupSelect(t)
    \/ GetGroupCommit(t)
    \/ GetGroupRefresh(t)
    \/ LockAcquire(t)
    \/ Finish(t)

FirstAccessSpec == Init /\ [][FirstAccessNext]_vars

\* Member reads next to group updates, the group names including tuple-like ones.
AnyKeyNext ==
  \E t \in Tasks :
    \/ \E k \in UserKeys, nc \in BOOLEAN : StartGetMember(t, k, nc)
    \/ GetMemberLocked(t)
    \/ GetMemberSelect(t)
    \/ GetMemberCommit(t)
    \/ GetMemberRefresh(t)
    \/ \E g \in AllGroupNames, d \in GroupDataChoices : StartUpdateGroup(t, g, d) /\ UNCHANGED <<calls, webVars>>
    \/ UpdateGroupLocked(t)
    \/ UpdateGroupSelect(t)
    \/ UpdateGroupCommit(t)
    \/ UpdateGroupCache(t)
    \/ LockAcquire(t)
    \/ Finish(t)

AnyKeySpec == Init /\ [][AnyKeyNext]_vars

\* User checks on records that hold deny entries and wildcard grants.
Chat == <<"chat">>

DenyMemberChoices ==
  {[permissions |-> {Deny(ChatUse)}, permission_groups |-> <<"vip">>],
   [permissions |-> {Deny(ChatUse), GrantAll(Chat)}, permission_groups |-> <<>>]}

DenyGroupChoices == {[permissions |-> {GrantAll(Chat)}], EmptyGroup}

DenyInit ==
  /\ memberRows \in [MemberKeys -> InitRows(DenyMemberChoices)]
  /\ \A k \in MemberKeys \ UserKeys : memberRows[k] = <<>>
  /\ groupRows \in [AllGroupNames -> InitRows(DenyGroupChoices)]
  /\ \A g \in TupleLikeNames : groupRows[g] = <<>>
  /\ cachedAny = [k \in MemberKeys |-> {}]
  /\ cachedGroup = [g \in AllGroupNames |-> {}]
  /\ lockHolder = [l \in LockKeys |-> 0]
  /\ lockWaiters = [l \in LockKeys |-> <<>>]
  /\ task = [t \in Tasks |-> IdleTask]
  /\ memoUser = [k \in UserMemoKeys |-> "absent"]
  /\ memoGroup = [k \in GroupMemoKeys |-> "absent"]
  /\ evMap = [a \in Addrs |-> <<>>]
  /\ lastUpd = [g \in AllGroupNames |-> {}]
  /\ memoBy = [k \in MemoKeys |-> ""]
  /\ expired = {}
  /\ calls = [ev |-> 0, upd |-> 0]
  /\ WebIdle

DenyNext ==
  \E t \in Tasks :
    \/ EventStep(t)
    \/ GetMemberLocked(t)
    \/ GetMemberSelect(t)
    \/ GetMemberCommit(t)
    \/ GetMemberRefresh(t)
    \/ GetGroupLocked(t)
    \/ GetGroupSelect(t)

DenySpec == DenyInit /\ [][DenyNext]_vars

\* Events whose user permission checks meet a database that fails at times.
OutageNext ==
  \E t \in Tasks :
    \/ EventStep(t)
    \/ GetMemberLocked(t)
    \/ GetMemberSelect(t)
    \/ GetMemberCommit(t)
    \/ GetMemberRefresh(t)
    \/ GetGroupLocked(t)
    \/ GetGroupSelect(t)
    \/ StoreFails(t)
    \/ CheckRaised(t)

OutageSpec == Init /\ [][OutageNext]_vars

\* Events with user permission checks whose cleanup meets exceptions.
CleanupFailNext ==
  \E t \in Tasks :
    \/ EventStep(t)
    \/ GetMemberLocked(t)
    \/ GetMemberSelect(t)
    \/ GetMemberCommit(t)
    \/ GetMemberRefresh(t)
    \/ GetGroupLocked(t)
    \/ GetGroupSelect(t)
    \/ \E where \in {"invalidate", "delete"}, exc \in Raisable : CleanupFails(t, where, exc)

CleanupFailSpec == Init /\ [][CleanupFailNext]_vars

\* Group and private events checked by both checkers.
CheckersNext ==
  \E t \in Tasks :
    \/ \E a \in Addrs, ig \in BOOLEAN : EventArrive(t, a, ig)
    \/ \E n \in EventNodes : UserCheck(t, n)
    \/ \E n \in EventNodes, og \in BOOLEAN : GroupCheck(t, n, og)
    \/ MemoWait(t)
    \/ CheckGroups(t)
    \/ ExistsSelect(t)
    \/ CheckRaised(t)
    \/ \E stop \in BOOLEAN : MatcherDone(t, stop)
    \/ Cleanup(t)
    \/ EventEnd(t)
    \/ GetMemberLocked(t)
    \/ GetMemberSelect(t)
    \/ GetMemberCommit(t)
    \/ GetMemberRefresh(t)
    \/ GetGroupLocked(t)
    \/ GetGroupSelect(t)

CheckersSpec == Init /\ [][CheckersNext]_vars

\* Events with user permission checks; at cleanup every call of the cache
\* wrapper's method may raise.
InvalidateFailNext ==
  \E t \in Tasks :
    \/ EventStep(t)
    \/ GetMemberLocked(t)
    \/ GetMemberSelect(t)
    \/ GetMemberCommit(t)
    \/ GetMemberRefresh(t)
    \/ GetGroupLocked(t)
    \/ GetGroupSelect(t)
    \/ \E exc \in Raisable : CleanupFails(t, "invalidate", exc)

InvalidateFailSpec == Init /\ [][InvalidateFailNext]_vars

\* Events with user permission checks while admin commands read permission
\* groups with get_permission_group, which creates a missing group.
MembershipNext ==
  \E t \in Tasks :
    \/ EventStep(t)
    \/ \E g \in GroupNames : StartGetGroup(t, g, FALSE)
    \/ GetMemberLocked(t)
    \/ GetMemberSelect(t)
    \/ GetMemberCommit(t)
    \/ GetMemberRefresh(t)
    \/ GetGroupLocked(t)
    \/ GetGroupSelect(t)
    \/ GetGroupCommit(t)
    \/ GetGroupRefresh(t)
    \/ LockAcquire(t)
    \/ Finish(t)

MembershipSpec == Init /\ [][MembershipNext]_vars

\* The storage API with the cache loaded from the database meanwhile.
InitCacheNext(t) ==
  \/ StartInitCache(t)
  \/ InitSelectGroups(t)
  \/ InitSelectMembers(t)
  \/ InitLocked(t)

WarmNext == \E t \in Tasks : GetNext(t, UserKeys) \/ RefreshNext(t) \/ UpdateNext(t) \/ ExpireNext(t) \/ InitCacheNext(t)

WarmSpec == Init /\ [][WarmNext]_vars

\* Gets and updates on a database whose commits fail at times.
CommitFailNext == \E t \in Tasks : GetNext(t, UserKeys) \/ UpdateNext(t) \/ UpdateCommitFails(t)

CommitFailSpec == Init /\ [][CommitFailNext]_vars

\* The storage API on a new database, every call that has started being
\* resumed whenever it can go on: a store access returns, and a released lock
\* is handed to its first waiter.
Resumes(t) ==
  \/ GetMemberLocked(t) \/ GetMemberSelect(t) \/ GetMemberCommit(t) \/ GetMemberRefresh(t)
  \/ GetGroupLocked(t) \/ GetGroupSelect(t) \/ GetGroupCommit(t) \/ GetGroupRefresh(t)
  \/ RefreshMemberLocked(t) \/ RefreshMemberSelect(t)
  \/ RefreshGroupLocked(t) \/ RefreshGroupSelect(t)
  \/ UpdateSteps(t)
  \/ ExpireMemberLocked(t) \/ ExpireGroupLocked(t)
  \/ InitSelectGroups(t) \/ InitSelectMembers(t) \/ InitLocked(t)
  \/ LockAcquire(t)

\* the calls that start, one input each
LiveStarts(t) ==
  \/ \E k \in UserKeys : StartGetMember(t, k, FALSE)
  \/ \E g \in GroupNames : StartGetGroup(t, g, FALSE)
  \/ \E k \in UserKeys : StartRefreshMember(t, k)
  \/ \E g \in GroupNames : StartRefreshGroup(t, g)
  \/ \E g \in GroupNames : StartUpdateGroup(t, g, [permissions |-> {Grant(ChatUse)}]) /\ UNCHANGED <<calls, webVars>>
  \/ \E k \in UserKeys : StartUpdateMember(t, k, [permissions |-> {}, permission_groups |-> <<"vip">>])
                           /\ UNCHANGED <<calls, webVars>>
  \/ \E k \in UserKeys : StartExpireMember(t, k)
  \/ \E g \in GroupNames : StartExpireGroup(t, g)
  \/ StartInitCache(t)

LiveNext == \E t \in Tasks : LiveStarts(t) \/ Resumes(t) \/ Finish(t)

LiveSpec == FreshInit /\ [][LiveNext]_vars /\ \A t \in Tasks : WF_vars(Resumes(t))

\* Group and private events checked by both checkers, users and chat groups
\* that may belong to vip, and an admin command updating vip meanwhile.
VariantInit ==
  /\ memberRows \in [MemberKeys -> InitRows({[permissions |-> {}, permission_groups |-> <<"vip">>]})]
  /\ \A k \in MemberKeys \ UserKeys : memberRows[k] # <<>>
  /\ groupRows \in [AllGroupNames -> InitRows(GroupDataChoices)]
  /\ \A g \in TupleLikeNames : groupRows[g] = <<>>
  /\ cachedAny = [k \in MemberKeys |-> {}]
  /\ cachedGroup = [g \in AllGroupNames |-> {}]
  /\ lockHolder = [l \in LockKeys |-> 0]
  /\ lockWaiters = [l \in LockKeys |-> <<>>]
  /\ task = [t \in Tasks |-> IdleTask]
  /\ memoUser = [k \in UserMemoKeys |-> "absent"]
  /\ memoGroup = [k \in GroupMemoKeys |-> "absent"]
  /\ evMap = [a \in Addrs |-> <<>>]
  /\ lastUpd = [g \in AllGroupNames |-> {}]
  /\ memoBy = [k \in MemoKeys |-> ""]
  /\ expired = {}
  /\ calls = [ev |-> 0, upd |-> 0]
  /\ WebIdle

VariantUpdate(t) ==
  /\ calls.upd < MaxUpdates
  /\ calls' = [calls EXCEPT !.upd = @ + 1]
  /\ UNCHANGED webVars
  /\ \E g \in GroupNames, d \in GroupDataChoices : StartUpdateGroup(t, g, d)

VariantNext ==
  \E t \in Tasks :
    \/ \E a \in Addrs, ig \in BOOLEAN : EventArrive(t, a, ig)
    \/ \E n \in EventNodes : UserCheck(t, n)
    \/ \E n \in EventNodes, og \in BOOLEAN : GroupCheck(t, n, og)
    \/ MemoWait(t)
    \/ CheckGroups(t)
    \/ ExistsSelect(t)
    \/ CheckRaised(t)
    \/ \E stop \in BOOLEAN : MatcherDone(t, stop)
    \/ Cleanup(t)
    \/ EventEnd(t)
    \/ GetMemberLocked(t)
    \/ GetMemberSelect(t)
    \/ GetMemberCommit(t)
    \/ GetMemberRefresh(t)
    \/ GetGroupLocked(t)
    \/ GetGroupSelect(t)
    \/ VariantUpdate(t)
    \/ UpdateGroupLocked(t)
    \/ UpdateGroupSelect(t)
    \/ UpdateGroupCommit(t)
    \/ UpdateGroupCache(t)
    \/ LockAcquire(t)
    \/ Finish(t)

VariantSpec == VariantInit /\ [][VariantNext]_vars

\* ------------------------------------------------- WebUI under concurrency
\* Browsers log in and send requests to protected paths with cookies the
\* service issued; requests are handled concurrently and time passes. The bot
\* starts on an empty database and handles no event.
WebInit == FreshInit

WebNext ==
  \/ Login
  \/ \E k \in TokenIds : TimePasses(k)
  \/ \E r \in Requests, c \in {NoCookie} \cup TokenIds : RequestArrives(r, c)
  \/ \E r \in Requests : HandlerReturns(r)
  \/ \E r \in Requests : ResponseSent(r)

WebSpec == WebInit /\ [][WebNext]_vars

\* ------------------------------------------------------------------- claims
InVip == [permissions |-> {}, permission_groups |-> <<"vip">>]

VipGrantsUse == [permissions |-> {Grant(ChatUse)}]

\* the step in which cleanup_permission_cache calls expire_event_cache for t's event
IsCleanup(t) == task[t].op = "event" /\ task[t].pc = "dispatch" /\ task'[t].pc \in {"cleaned", "noop"}

\* the entity a finished check was about
CheckedKey(tr) == IF tr.kind = "user" THEN <<TheUser, "user">> ELSE <<TheChatGroup, "group">>

\* t's check has returned, no update ran since t's event arrived, and no other
\* event in flight owns the memoized result of the checked key
SettledCheck(t) ==
  /\ task[t].pc = "checked" /\ task[t].quiet
  /\ \A w \in Tasks \ {t} : task[w].op = "event" => memoBy[MemoKeyOf(task[t])] # task[w].ev

\* C1: after expire_event_cache(e) no memoized result of a (user_id, node) pair
\* recorded for e is left in the user-check cache, and neither only_group
\* variant of a recorded (group_id, node) pair is left in the group-check cache.
C1_ExpireRemovesMemo ==
  [][\A t \in Tasks :
       (IsCleanup(t) /\ evMap[task[t].ev] # <<>>) =>
         /\ \A k \in UserKeysOf(evMap[task[t].ev][1]) : memoUser'[k] = "absent"
         /\ \A k \in GroupKeysOf(evMap[task[t].ev][1]) : memoGroup'[k] = "absent"]_vars

\* C2: a check of (u1, chat.use) made in an event during which nothing is updated returns
\* true when u1 has no direct permission and is in vip, which grants chat.use,
\* and returns false once update_member_permission has left u1 without groups.
C2_RecheckAfterRemoval ==
  \A t \in Tasks :
    LET tr == task[t] IN
    (SettledCheck(t) /\ tr.kind = "user" /\ tr.node = ChatUse) =>
      /\ (memberRows[<<"u1", "user">>] = <<InVip>> /\ groupRows["vip"] = <<VipGrantsUse>> /\ calls.upd = 0)
           => tr.result = "T"
      /\ (memberRows[<<"u1", "user">>] = <<EmptyMember>> /\ calls.upd > 0)
           => tr.result = "F"

\* C3: no check is answered from a result memoized during an event that has
\* been expired since.
C3_NoHitAfterExpiry ==
  [][\A t \in Tasks :
       (task[t].op = "event" /\ task[t].pc = "dispatch" /\ task'[t].pc = "checked")
         => memoBy[MemoKeyOf(task'[t])] # "expired"]_vars

\* C4: a get_permission_group that returns after an update_permission_group of
\* that name has returned gives the data of the last such update.
C4_NoStaleGroupRead ==
  [][\A t \in Tasks :
       (/\ task[t].call = "get_permission_group"
        /\ task[t].pc # "ret"
        /\ task'[t].pc = "ret"
        /\ task'[t].err = ""
        /\ lastUpd[task[t].gname] # {})
         => task'[t].res = lastUpd[task[t].gname]]_vars

C4_Witness ==
  \E t \in Tasks, w \in Tasks :
    /\ task[t].call = "get_permission_group" /\ task[t].pc = "ret" /\ task[t].waited
    /\ task[w].call = "update_permission_group" /\ task[w].pc = "ret"
    /\ task[w].gname = task[t].gname
    /\ task[w].rowid = 1
    /\ task[t].res = task[w].data
    /\ task[t].res = lastUpd[task[t].gname]

\* C5: the processing of every event ends with one call of expire_event_cache
\* for its id, made after all its checks and handlers.
C5_CleanupForEveryEvent ==
  [][\A t \in Tasks :
       (task[t].op = "event" /\ task'[t].op = "idle") => task[t].pc \in {"cleaned", "noop"}]_vars

\* C6: expire_event_cache(e) leaves no mapping entry for e, and called for an
\* id without entry it changes neither the mapping nor any cache.
C6_ExpireDeletesEntry ==
  /\ [](\A a \in expired : evMap[a] = <<>>)
  /\ [][\A t \in Tasks :
          IsCleanup(t) =>
            /\ evMap'[task[t].ev] = <<>>
            /\ evMap[task[t].ev] = <<>> => UNCHANGED <<evMap, memoUser, memoGroup, cachedAny, cachedGroup>>]_vars

C6_Witness ==
  \E t \in Tasks : task[t].pc = "noop" /\ task[t].ev \in expired /\ evMap[task[t].ev] = <<>>

\* C7: a mapping entry exists only under the id of an event in flight, so there
\* are never more entries than events in flight.
C7_EntriesOnlyInFlight ==
  /\ \A a \in Addrs : evMap[a] # <<>> => \E t \in Tasks : task[t].op = "event" /\ task[t].ev = a
  /\ Cardinality({a \in Addrs : evMap[a] # <<>>}) <= Cardinality({t \in Tasks : task[t].op = "event"})

\* C8: a check about an entity whose record is empty (no permissions, no
\* groups), the record the check itself created included, returns false and
\* does not fail.
C8_DefaultDeny ==
  \A t \in Tasks :
    LET tr == task[t] IN
    (/\ SettledCheck(t)
     /\ tr.kind = "group" => tr.isgroup
     /\ memberRows[CheckedKey(tr)] \in {<<>>, <<EmptyMember>>})
      => tr.result = "F"

\* C9: on a database without rows, every get_member_permission returns the
\* empty record without error and the key has exactly one row afterwards.
C9_GetOrCreateIdempotent ==
  \A t \in Tasks :
    (task[t].call = "get_member_permission" /\ task[t].pc = "ret") =>
      /\ task[t].err = ""
      /\ task[t].res = {EmptyMember}
      /\ memberRows[task[t].mkey] = <<EmptyMember>>

C9_Witness ==
  \E t \in Tasks, w \in Tasks :
    /\ t # w
    /\ task[t].call = "get_member_permission" /\ task[t].pc = "ret"
    /\ task[w].call = "get_member_permission" /\ task[w].pc = "ret"
    /\ task[t].mkey = task[w].mkey
    /\ task[t].rowid = 1 /\ task[w].rowid = 0
    /\ task[t].res = {EmptyMember} /\ task[w].res = {EmptyMember}
    /\ Len(memberRows[task[t].mkey]) = 1

\* C10: the store never holds two member records of one (any_id, type) or two
\* permission-group records of one group_name.
C10_UniqueRecords ==
  /\ \A k \in MemberKeys : Len(memberRows[k]) <= 1
  /\ \A g \in AllGroupNames : Len(groupRows[g]) <= 1

C10_Witness ==
  \E t \in Tasks, w \in Tasks :
    /\ task[t].call = "update_member_permission" /\ task[t].pc = "ret" /\ task[t].rowid = 1
    /\ task[w].call = "get_member_permission" /\ task[w].nocache /\ task[w].pc = "select"
    /\ task[w].mkey = task[t].mkey
    /\ Len(memberRows[task[t].mkey]) = 1
    /\ \E g \in GroupNames : Len(groupRows[g]) = 1

GetCalls == {"get_member_permission", "get_permission_group"}

\* t is between the start of its store round-trip and the return of its get
Loading(t) == task[t].call \in GetCalls /\ task[t].pc \in {"select", "commit", "refresh"}

\* the cache entry of the key t's storage call is about
CacheOf(tr, ca, cg) == IF tr.gname # "" THEN cg[tr.gname] ELSE ca[tr.mkey]

GetReturns(t) ==
  /\ task[t].call \in GetCalls /\ task[t].op = "api"
  /\ task[t].pc # "ret" /\ task'[t].pc = "ret"

StoredOf(tr, mr, gr) ==
  IF tr.gname # "" THEN {GroupOfRow(gr[tr.gname][1])} ELSE {MemberOfRow(mr[tr.mkey][1])}

GetReturnsOk(t) == GetReturns(t) /\ task'[t].err = ""

\* C12 as stated: a get that loads from the store, with no_cache=True as well,
\* leaves the loaded record in the cache entry of the key.
C12_LoadStoresSnapshot ==
  [][\A t \in Tasks :
       (GetReturnsOk(t) /\ task[t].pc # "locked") =>
         CacheOf(task[t], cachedAny', cachedGroup') = task'[t].res]_vars

\* C12 amended: a get returns the cached snapshot, leaving the cache alone,
\* only when the key is cached and no_cache is false; otherwise it returns the
\* record as the store holds it, and it stores that snapshot in the cache when
\* no_cache is false and leaves the cache entry as it was when no_cache is true.
C12_GetContract ==
  [][\A t \in Tasks :
       LET tr == task[t] IN
       /\ (tr.call \in GetCalls /\ tr.op = "api" /\ tr.pc = "locked" /\ task'[t] # tr
              /\ ~tr.nocache /\ CacheOf(tr, cachedAny, cachedGroup) # {})
            => GetReturnsOk(t)
       /\ GetReturnsOk(t) =>
            IF tr.pc = "locked"
            THEN /\ ~tr.nocache
                 /\ task'[t].res # {}
                 /\ task'[t].res = CacheOf(tr, cachedAny, cachedGroup)
                 /\ UNCHANGED cacheVars
            ELSE /\ task'[t].res = StoredOf(tr, memberRows', groupRows')
                 /\ CacheOf(tr, cachedAny', cachedGroup') =
                      IF tr.nocache THEN CacheOf(tr, cachedAny, cachedGroup) ELSE task'[t].res]_vars

C12_Witness ==
  \E t \in Tasks, w \in Tasks :
    /\ task[t].call = "get_member_permission" /\ task[t].pc = "ret" /\ task[t].err = ""
    /\ task[t].nocache /\ task[t].res # {}
    /\ cachedAny[task[t].mkey] = {}
    /\ task[w].call = "get_permission_group" /\ task[w].pc = "ret" /\ task[w].err = ""
    /\ ~task[w].nocache /\ task[w].res = cachedGroup[task[w].gname]

RefreshCalls == {"refresh_member_permission", "refresh_permission_group"}

\* the rows of the key t's storage call is about
RowsOf(tr) == IF tr.gname # "" THEN groupRows[tr.gname] ELSE memberRows[tr.mkey]

\* C13: a refresh whose select finds no record of the key ends with an error
\* and no value, leaves the key without cache entry, and no step of a refresh
\* writes the store.
C13_RefreshNotFound ==
  [][\A t \in Tasks :
       LET tr == task[t] IN
       (tr.call \in RefreshCalls /\ task'[t] # tr) =>
         /\ UNCHANGED storeVars
         /\ (tr.pc = "select" /\ RowsOf(tr) = <<>>) =>
              /\ task'[t].pc = "ret"
              /\ task'[t].err = "ValueError"
              /\ task'[t].res = {}
              /\ CacheOf(tr, cachedAny', cachedGroup') = {}]_vars

C13_Witness ==
  \E t \in Tasks, w \in Tasks :
    /\ task[t].call = "refresh_member_permission" /\ task[t].pc = "ret"
    /\ task[t].err = "ValueError" /\ memberRows[task[t].mkey] = <<>> /\ cachedAny[task[t].mkey] = {}
    /\ task[w].call = "refresh_permission_group" /\ task[w].pc = "ret"
    /\ task[w].err = "ValueError" /\ groupRows[task[w].gname] = <<>> /\ cachedGroup[task[w].gname] = {}

\* two storage calls are about the same group name or the same member key
SameKey(a, b) == a.gname = b.gname /\ a.mkey = b.mkey

\* C14: a task waits for a lock only while a call on the same key holds it:
\* calls on two distinct keys, group or member, never block each other.
C14_DistinctKeysIndependent ==
  \A t \in Tasks, w \in Tasks :
    (task[t].pc = "wait" /\ lockHolder[LockOf(task[t])] = w) => SameKey(task[t], task[w])

UpdateCalls == {"update_member_permission", "update_permission_group"}

\* t is inside the `async with` block of an update
InUpdate(t) == task[t].call \in UpdateCalls /\ task[t].pc \in {"locked", "select", "commit", "cache"}

\* the cache entry of a key is absent or the snapshot of its one store record
Coherent(tr) ==
  CacheOf(tr, cachedAny, cachedGroup) # {} =>
    /\ Len(RowsOf(tr)) = 1
    /\ CacheOf(tr, cachedAny, cachedGroup) = StoredOf(tr, memberRows, groupRows)

\* C15: two updates of one key are never inside their locked blocks together;
\* an update that returns leaves its own data in the store record and in the
\* cache entry; and whenever no update of a key is under way, what is cached
\* for the key is what the store holds.
C15_UpdatesSerialized ==
  /\ [](\A t \in Tasks, w \in Tasks :
          (t # w /\ InUpdate(t) /\ InUpdate(w)) => ~SameKey(task[t], task[w]))
  /\ [](\A t \in Tasks :
          (task[t].call \in UpdateCalls /\ task[t].pc = "ret"
             /\ \A w \in Tasks : InUpdate(w) => ~SameKey(task[t], task[w]))
            => Coherent(task[t]))
  /\ [][\A t \in Tasks :
          (task[t].call \in UpdateCalls /\ task[t].pc # "ret" /\ task'[t].pc = "ret"
             /\ task'[t].err = "")
            => /\ CacheOf(task[t], cachedAny', cachedGroup') = task[t].data
               /\ StoredOf(task[t], memberRows', groupRows') = task[t].data]_vars

C15_Witness ==
  \E t \in Tasks, w \in Tasks :
    /\ t # w
    /\ task[t].call = "update_permission_group" /\ task[w].call = "update_permission_group"
    /\ task[t].pc = "ret" /\ task[w].pc = "ret"
    /\ task[t].gname = task[w].gname
    /\ task[t].data # task[w].data
    /\ task[w].waited /\ ~task[t].waited
    /\ cachedGroup[task[w].gname] = task[w].data
    /\ StoredOf(task[w], memberRows, groupRows) = task[w].data

\* what the store says about node n for the entity of key k: a permission
\* group of its record exists and grants n, or its own permissions grant n
StoreGrants(k, n) ==
  /\ memberRows[k] # <<>>
  /\ LET d == MemberOfRow(memberRows[k][1]) IN
     \/ \E i \in 1..Len(d.permission_groups) :
          /\ groupRows[d.permission_groups[i]] # <<>>
          /\ check_permission(GroupOfRow(groupRows[d.permission_groups[i]][1]).permissions, n)
     \/ check_permission(d.permissions, n)

\* C16: the group checker answers an event that is not a group event at once,
\* true when only_group is false and false when it is true, whatever is
\* stored, touching neither store, caches nor mapping.
C16_NonGroupEvents ==
  /\ [](\A t \in Tasks :
          (task[t].pc = "checked" /\ task[t].kind = "group" /\ ~task[t].isgroup) =>
            task[t].result = IF task[t].onlyg THEN "F" ELSE "T")
  /\ [][\A t \in Tasks :
          (task[t].op = "event" /\ ~task[t].isgroup /\ task[t].pc = "dispatch"
             /\ task'[t].kind = "group")
            => /\ task'[t].pc = "checked"
               /\ UNCHANGED <<storeVars, cacheVars, memoVars, evMap>>]_vars

C16_Witness ==
  \E t \in Tasks, w \in Tasks :
    /\ task[t].pc = "checked" /\ task[t].kind = "group" /\ ~task[t].isgroup
    /\ ~task[t].onlyg /\ task[t].result = "T"
    /\ ~StoreGrants(<<TheChatGroup, "group">>, task[t].node)
    /\ task[w].pc = "checked" /\ task[w].kind = "group" /\ ~task[w].isgroup
    /\ task[w].onlyg /\ task[w].result = "F"

\* C17: a user check computed while nothing is updated returns true exactly
\* when the user's own permissions grant the node or a permission group of the
\* user's record exists and grants it; a group name without record is skipped
\* and no record is made for it.
C17_UserCheckResult ==
  [][\A t \in Tasks :
       LET tr == task[t] IN
       /\ (tr.op = "event" /\ task'[t] # tr) => UNCHANGED groupRows
       /\ (tr.op = "event" /\ tr.kind = "user" /\ tr.quiet
             /\ tr.pc = "groups" /\ task'[t].pc = "checked")
            => /\ task'[t].result = BoolResult(StoreGrants(<<TheUser, "user">>, tr.node))
               /\ memoUser'[MemoKeyOf(tr)] = task'[t].result]_vars

C17_Witness ==
  \E t \in Tasks, w \in Tasks :
    /\ task[t].pc = "checked" /\ task[t].kind = "user" /\ task[t].quiet
    /\ memoBy[MemoKeyOf(task[t])] = task[t].ev
    /\ task[t].result = "F"
    /\ memberRows[<<TheUser, "user">>] = <<InVip>>
    /\ groupRows["vip"] = <<>>
    /\ task[w].op = "idle"

\* the grants that match n in the entity's own permissions and in those of
\* the permission groups of its record
MatchingGrants(k, n) ==
  LET d == MemberOfRow(memberRows[k][1])
      own == {e \in d.permissions : ~e.deny /\ Matches(e, n)}
      viaGroups == UNION {{e \in GroupOfRow(groupRows[d.permission_groups[i]][1]).permissions :
                             ~e.deny /\ Matches(e, n)} :
                          i \in {j \in 1..Len(d.permission_groups) :
                                   groupRows[d.permission_groups[j]] # <<>>}} IN
  own \cup viaGroups

\* the entity's own permissions deny n more specifically than any grant matches it
DeniedMoreSpecifically(k, n) ==
  /\ memberRows[k] # <<>>
  /\ \E e \in MemberOfRow(memberRows[k][1]).permissions :
       /\ e.deny /\ Matches(e, n)
       /\ \A f \in MatchingGrants(k, n) : Specificity(f) < Specificity(e)

\* C18: no check returns true for a node that the entity's own permissions
\* deny more specifically than every grant that matches it, the grants of the
\* entity's permission groups included.
C18_DenyOutranksGroupGrant ==
  \A t \in Tasks :
    (task[t].pc = "checked" /\ task[t].op = "event"
       /\ DeniedMoreSpecifically(CheckedKey(task[t]), task[t].node))
      => task[t].result # "T"

\* C19: a store access that fails during a permission check ends the check with
\* an error outcome: the check does not return false, and no false result is
\* memoized for its (entity, node).
C19_StoreFailureIsError ==
  [][\A t \in Tasks :
       (task[t].op = "event" /\ task[t].pc = "raised" /\ task[t].err = StoreError
          /\ task'[t] # task[t])
         => /\ task'[t].pc = "checked"
            /\ task'[t].result = "err"
            /\ memoUser'[MemoKeyOf(task[t])] # "F"]_vars

C19_Witness ==
  \E t \in Tasks :
    /\ task[t].op = "event" /\ task[t].pc = "checked" /\ task[t].kind = "user"
    /\ task[t].result = "err"
    /\ memoUser[<<TheUser, task[t].node>>] = "absent"

\* C20: cleanup_permission_cache returns normally whatever is raised while the
\* event's cache entries are expired; the exception never leaves the handler
\* into the event pipeline.
C20_CleanupSwallowsFailures ==
  [][\A t \in Tasks :
       (task[t].op = "event" /\ task[t].pc = "dispatch" /\ task'[t].err \in Raisable)
         => task'[t].pc = "cleaned"]_vars

C20_Witness ==
  \E t \in Tasks :
    /\ task[t].op = "event" /\ task[t].pc = "cleaned"
    /\ task[t].err \in Raisable
    /\ evMap[task[t].ev] # <<>>

ExpireCalls == {"expire_any_permission_cache", "expire_permission_group_cache"}

\* the caches with the entry of the key of call tr removed
WithoutEntry(tr) ==
  IF tr.gname # ""
  THEN <<cachedAny, [cachedGroup EXCEPT ![tr.gname] = {}]>>
  ELSE <<[cachedAny EXCEPT ![tr.mkey] = {}], cachedGroup>>

\* C21: expire_any_permission_cache and expire_permission_group_cache remove
\* the cache entry of their key and nothing else: every step of such a call
\* leaves the store and every other cache entry as they were, and when the key
\* is not cached the call changes no cache entry at all.
C21_ExpireOnlyItsKey ==
  [][\A t \in Tasks :
       (task'[t].call \in ExpireCalls /\ task'[t] # task[t])
         => /\ storeVars' = storeVars
            /\ IF task[t].pc = "locked"
               THEN cacheVars' = WithoutEntry(task[t])
               ELSE cacheVars' = cacheVars
            /\ CacheOf(task'[t], cachedAny, cachedGroup) = {} => cacheVars' = cacheVars]_vars

C21_Witness ==
  \E t \in Tasks :
    /\ task[t].call = "expire_any_permission_cache" /\ task[t].pc = "ret"
    /\ cachedAny[task[t].mkey] = {}
    /\ memberRows[task[t].mkey] # <<>>
    /\ cachedGroup["vip"] # {}

\* the call of permission_group_exists made by task t returns in this step
ExistsReturns(t) ==
  /\ task[t].op = "event" /\ task'[t].pc \notin {task[t].pc, "raised"}
  /\ \/ task[t].pc = "exists"
     \/ /\ task[t].pc = "groups" /\ task[t].gdata = {} /\ task[t].todo # <<>>
        /\ cachedGroup[Head(task[t].todo)] # {}

\* C22: permission_group_exists(name) returns true exactly when name is in the
\* group cache or has a store record (the checker then loads the group, else it
\* skips it), and no step of it changes the store or the cache.
C22_ExistsIsReadOnly ==
  [][\A t \in Tasks :
       /\ ExistsReturns(t)
            => /\ (task'[t].call = "get_permission_group")
                    <=> (cachedGroup[Head(task[t].todo)] # {} \/ groupRows[Head(task[t].todo)] # <<>>)
               /\ storeVars' = storeVars /\ cacheVars' = cacheVars
       /\ (task[t].op = "event" /\ task[t].pc = "groups" /\ task'[t].pc = "exists")
            => (storeVars' = storeVars /\ cacheVars' = cacheVars)]_vars

C22_Witness ==
  \E t \in Tasks :
    /\ task[t].op = "event" /\ task[t].pc = "groups"
    /\ task[t].udata = {InVip} /\ task[t].todo = <<>> /\ task[t].gdata = {}
    /\ groupRows["vip"] = <<>> /\ cachedGroup["vip"] = {}

\* the check task t is in consults the memoized function of its checker
ConsultsMemo(t) ==
  /\ task[t].op = "event" /\ task[t].kind # ""
  /\ task[t].pc \notin {"dispatch", "cleaned", "noop", "blocked"}
  /\ task[t].kind = "group" => task[t].isgroup

\* the (entity, node) pair of the check of task t is in its event's mapping entry
Registered(t) ==
  /\ evMap[task[t].ev] # <<>>
  /\ IF task[t].kind = "user"
     THEN <<TheUser, task[t].node>> \in evMap[task[t].ev][1].users
     ELSE <<TheChatGroup, task[t].node>> \in evMap[task[t].ev][1].groups

\* C23: from the moment a user or group check of an event consults the
\* memoized check function until the check has returned, the (entity, node)
\* pair of the check is recorded in the mapping entry of that event.
C23_RegisteredBeforeMemo == \A t \in Tasks : ConsultsMemo(t) => Registered(t)

C23_Witness ==
  \E t \in Tasks :
    /\ ConsultsMemo(t) /\ task[t].kind = "group" /\ task[t].pc = "checked"
    /\ Registered(t)
    /\ <<TheUser, task[t].node>> \in evMap[task[t].ev][1].users

\* the memoized keys recorded under event id a
RecordedUserKeys(a) == IF evMap[a] = <<>> THEN {} ELSE UserKeysOf(evMap[a][1])

RecordedGroupKeys(a) == IF evMap[a] = <<>> THEN {} ELSE GroupKeysOf(evMap[a][1])

\* C24: expire_event_cache(e) removes the mapping entry of e and no other, leaves
\* the memoized result of every key not recorded under e as it was, and leaves
\* the member and group snapshots of the cache layer and the store unchanged.
C24_ExpireOnlyItsEvent ==
  [][\A t \in Tasks :
       IsCleanup(t)
         => /\ evMap' = [evMap EXCEPT ![task[t].ev] = <<>>]
            /\ \A k \in UserMemoKeys \ RecordedUserKeys(task[t].ev) : memoUser'[k] = memoUser[k]
            /\ \A k \in GroupMemoKeys \ RecordedGroupKeys(task[t].ev) : memoGroup'[k] = memoGroup[k]
            /\ cacheVars' = cacheVars /\ storeVars' = storeVars]_vars

C24_Witness ==
  \E t \in Tasks, b \in Addrs :
    /\ task[t].op = "event" /\ task[t].pc = "cleaned" /\ evMap[task[t].ev] = <<>>
    /\ b # task[t].ev /\ evMap[b] # <<>>
    /\ \E k \in GroupMemoKeys : memoGroup[k] = "pending"
    /\ \E k \in MemberKeys : cachedAny[k] # {}

\* C25: expire_event_cache(e) deletes the mapping entry of e whether the
\* invalidation of the recorded entries succeeds, removes nothing or raises.
C25_EntryDeletedDespiteFailure ==
  [][\A t \in Tasks : IsCleanup(t) => evMap'[task[t].ev] = <<>>]_vars

C25_Witness ==
  \E t \in Tasks :
    /\ task[t].op = "event" /\ task[t].pc = "cleaned"
    /\ task[t].err \in Raisable
    /\ evMap[task[t].ev] = <<>>
    /\ \E k \in UserMemoKeys : memoUser[k] \in {"T", "F"}

\* task t, handling an event, takes this step
EventTaskSteps(t) ==
  /\ task[t].op = "event"
  /\ <<task'[t].pc, task'[t].call>> # <<task[t].pc, task[t].call>>

\* C26: no step of a permission check creates a store record or a cache entry
\* for a permission group that has no store record, whether or not the checked
\* entity's membership list names it; the only record a check creates is the
\* member record of the checked entity.
C26_NoGroupCreatedByCheck ==
  [][\A t \in Tasks :
       EventTaskSteps(t)
         => /\ \A g \in AllGroupNames :
                 groupRows[g] = <<>> => (groupRows'[g] = <<>> /\ cachedGroup'[g] = {})
            /\ \A k \in MemberKeys \ {CheckedKey(task[t])} : memberRows'[k] = memberRows[k]]_vars

C26_Witness ==
  \E t \in Tasks :
    /\ task[t].op = "event" /\ task[t].pc = "checked" /\ task[t].kind = "user"
    /\ task[t].result = "F"
    /\ memberRows[<<TheUser, "user">>] = <<InVip>>
    /\ groupRows["vip"] = <<>> /\ cachedGroup["vip"] = {}

\* C27: the mapping entry under an event id holds only pairs registered by the
\* event that has that id now: an event that has made no check yet has no entry.
C27_EntryBelongsToCurrentEvent ==
  \A t \in Tasks :
    (task[t].op = "event" /\ task[t].pc = "dispatch" /\ task[t].nchk = 0)
      => evMap[task[t].ev] = <<>>

\* C28: whenever no operation holds the lock of a key, the cached snapshot of
\* that key, if there is one, equals the store record of the key.
C28_UnlockedCacheMatchesStore ==
  /\ \A k \in MemberKeys :
       (lockHolder[LockOfMember(k)] = 0 /\ cachedAny[k] # {})
         => (memberRows[k] # <<>> /\ cachedAny[k] = {MemberOfRow(memberRows[k][1])})
  /\ \A g \in AllGroupNames :
       (lockHolder[LockOfGroup(g)] = 0 /\ cachedGroup[g] # {})
         => (groupRows[g] # <<>> /\ cachedGroup[g] = {GroupOfRow(groupRows[g][1])})

\* the commit of the update task t is in fails in this step
CommitFailed(t) ==
  /\ task[t].call \in UpdateCalls /\ task[t].pc = "commit"
  /\ task'[t].pc = "ret" /\ task'[t].err # ""

\* C29: when the commit of update_permission_group or update_member_permission
\* fails, the call ends with the cache and the store as they were and with the
\* lock of its key released; no lock is ever left held by a call that has ended.
C29_FailedCommitLeavesCache ==
  /\ [][\A t \in Tasks :
          CommitFailed(t)
            => /\ cacheVars' = cacheVars /\ storeVars' = storeVars
               /\ lockHolder'[LockOf(task[t])] = 0]_vars
  /\ [](\A l \in LockKeys : lockHolder[l] # 0 => task[lockHolder[l]].pc \notin {"ret", "idle"})

C29_Witness ==
  \E t \in Tasks, x \in Tasks :
    /\ task[t].call = "update_permission_group" /\ task[t].pc = "ret"
    /\ task[t].err = "OperationalError"
    /\ cachedGroup[task[t].gname] # {} /\ cachedGroup[task[t].gname] # task[t].data
    /\ task[x].call = "get_permission_group" /\ task[x].gname = task[t].gname
    /\ task[x].waited /\ task[x].pc = "ret"

\* C30: no storage call waits for a lock while it holds one, and every storage
\* call that has started returns.
C30_NoDeadlock ==
  /\ [](\A t \in Tasks : task[t].pc = "wait" => \A l \in LockKeys : lockHolder[l] # t)
  /\ \A t \in Tasks : (task[t].op = "api" /\ task[t].pc # "ret") ~> (task[t].pc = "ret")

C30_Witness ==
  \E t \in Tasks :
    /\ task[t].call = "init_cache_from_database" /\ task[t].pc = "ret"
    /\ task[t].waited
    /\ cachedGroup["vip"] # {} /\ cachedAny[<<TheUser, "user">>] # {}

\* what the group check of (g, n) with only_group = og returns for a group
\* event that asks now: the memoized result if there is one, else what the
\* memoized function computes
OutcomeNow(g, n, og) ==
  IF memoGroup[<<g, n, og>>] \in {"T", "F"} THEN memoGroup[<<g, n, og>>]
  ELSE IF ~Binds(GroupCheckKeywords, GetMemberParams) THEN "err"
  ELSE BoolResult(StoreGrants(<<g, "group">>, n))

C32_ValidTokenNeverLoggedOut ==
  [][\A r \in Requests :
       request[r].pc = "call_next" => request'[r].answer # "logout"]_vars

====
